---- MODULE Spec2Model ----
(***************************************************************************)
(* Huntaze: the agent pipelines of src/aifoundry/agents, the /draft flow   *)
(* of src/autogen-service and the AI router, as state machines.            *)
(*                                                                         *)
(*   Spec      HuntazeAgentOrchestrator.process_message_request with the   *)
(*             run loops of HuntazeWriterAgent.generate_message and        *)
(*             HuntazeSafeguardAgent.validate_message                      *)
(*   FairSpec  Spec, with the controller always taking its next step       *)
(*   SpecRest  RestOrchestrator.process_message_request                    *)
(*   SpecCIN   CINAgentOrchestrator.process with its stages                *)
(*   SpecDraft the /draft handler of autogen-service with ChatContext      *)
(*   SpecRisk  compute_risk of autogen-service applied to one verdict      *)
(*   SpecGate  the gate of /draft applied to two verdicts of one label     *)
(*   SpecCache constructors of CINPlannerAgent / CINSupervisorAgent run    *)
(*             concurrently on the class-level cache of agent ids          *)
(*   SpecSelect select_deployment of src/lib/ai/router applied once        *)
(*   SpecRoute one POST /route request of src/lib/ai/router                *)
(*   SpecClassify  ClassificationResult.from_json, classify_prompt or the  *)
(*             to_json / from_json round trip applied to one input         *)
(*   SpecSessions  /draft and human_decision requests of autogen-service   *)
(*             on the sessions of one store                                *)
(*   SpecExecute  CINExecutor.execute and the messages it sends            *)
(*   SpecSchedule  ContentScheduler of src/automation as time passes       *)
(***************************************************************************)
EXTENDS Integers, Sequences, FiniteSets, TLC

VARIABLES
    pc,               \* position of process_message_request / the stage it is in
    i,                \* orchestrator.py:47  loop index of the retry loop
    thread,           \* the most recent message of the thread (messages.data[0])
    run,              \* the run object the controller holds (status, required tool calls)
    run_id,           \* run.id: the id of the run object the controller holds
    runs,             \* number of runs created so far on the thread (run ids are 1..runs)
    submitted,        \* tool_outputs of the submit_tool_outputs request in flight
    last_call,        \* the last call made to client.agents
    last_draft,       \* orchestrator.py:45
    last_validation,  \* orchestrator.py:46
    response,         \* the DraftResponse returned, when pc = "returned"
    error,            \* the exception that escaped, when pc = "raised"
    incomplete,       \* history: some stage returned normally after a run that did not complete
    cs_available,     \* safeguard_agent.py:49-56  self.content_safety is configured and answers
    calls,            \* history: the calls process_message_request made and their returns
    \* RestOrchestrator.process_message_request
    rest_pc,          \* position in process_message_request
    rest_i,           \* rest_orchestrator.py:131  polls done by the for loop
    rest_st,          \* rest_orchestrator.py:133  st, the status last read
    rest_draft,       \* rest_orchestrator.py:144  draft: "", the prompt, or the run's reply
    rest_response,    \* the DraftResponse returned
    \* CINAgentOrchestrator.process
    cin_pc,           \* the stage process is about to run
    cin_assistant,    \* text of the most recent assistant message of the thread
    cin_triage,       \* cin/orchestrator.py:69   triage
    cin_plan,         \* cin/orchestrator.py:75   plan
    cin_review,       \* cin/orchestrator.py:78   review (pre-execution)
    cin_post,         \* cin/orchestrator.py:86   post (post-execution)
    cin_executed,     \* cin/orchestrator.py:83   exec_result
    cin_calls,        \* history: calls made to execute and review, messages sent to the sink
    cin_sb,           \* cin/executor_agent.py:18  SERVICE_BUS_FQNS is set
    cin_incomplete,   \* history: some stage's run did not reach completed
    cin_result,       \* the dictionary process returns
    cin_stages,       \* history: the stages process has run, in the order it ran them
    \* autogen-service: draft
    d_pc,             \* position in draft
    d_max_rounds,     \* autogen-service/app/main.py:44  min(req.max_rounds, MAX_ROUNDS)
    d_replies,        \* replies the group chat has produced so far
    ctx_round_i,      \* ChatContext.round_i
    ctx_last_writer,  \* ChatContext.last_writer
    ctx_last_safeguard, \* ChatContext.last_safeguard
    d_reply,          \* history: the text of the last reply of the safeguard agent
    d_recorded,       \* history: the last reply of the safeguard that record went through with
    d_session,        \* the session item of the store
    d_risk,           \* main.py:64  risk
    d_events,         \* review_needed events delivered to the webhook
    d_response,       \* status of the DraftResponse returned
    \* autogen-service: one call of compute_risk
    risk_pc,          \* before ("call") or after ("done") the call
    risk_in,          \* utils/risk.py:1   safeguard_json, the argument
    risk_out,         \* utils/risk.py:9, 15  the dictionary returned
    \* autogen-service: the gate of draft decided for two verdicts
    gate_pc,          \* before ("decide") or after ("done") the two decisions
    gate_in,          \* the two verdicts (main.py:63 safeguard_json)
    gate_risk,        \* main.py:64  risk, for each of the two
    gate_out,         \* main.py:66  whether the gate answers needs_review, for each
    \* aifoundry/agents/cin: constructors of planner / supervisor agents
    ctor_pc,          \* where each constructor is
    ctor_key,         \* planner_agent.py:28  key = (model, name), per constructor
    ctor_agent_id,    \* planner_agent.py:29  agent_id, the local variable
    ctor_agent,       \* planner_agent.py:31, 33  self.agent (its id), 0 before it is set
    AGENTS,           \* planner_agent.py:22  _AGENTS, the class-level cache (0: no entry)
    create_agent_calls, \* calls of client.agents.create_agent made so far, per key
    \* lib/ai/router: one call of select_deployment
    sel_pc,           \* before ("call") or after ("done") the call
    sel_in,           \* routing.py:44-51  the arguments
    sel_out,          \* routing.py:82-105  the tuple returned
    \* lib/ai/router: one POST /route request
    rt_pc,            \* the step of the request
    rt_globals,       \* main.py:49-51  _config, _client (set or None), _api_key
    rt_req,           \* the request: its X-API-Key header and its body
    rt_class,         \* main.py:208  classification
    rt_selected,      \* main.py:212  model_name, deployment_name
    rt_calls,         \* how often the prompt was validated, classified, routed, a model called
    rt_status,        \* status code of the response, 0 while there is none
    cl_pc,            \* which function of the classifier is applied, and whether it has been
    cl_in,            \* its argument
    cl_out,           \* what it returned, or that it raised
    hd_store,         \* the session items of the store, by session id
    hd_draft_pc,      \* where the /draft run of each session id is
    hd_events,        \* events human_decision delivered to the webhook
    hd_n,             \* human_decision requests served so far
    hd_last,          \* history: the last human_decision request, its answer, the status it found
    ex_plan,          \* the plan execute is called with
    ex_sb,            \* whether the executor has a Service Bus client
    ex_n,             \* calls of execute made on the plan
    ex_sent,          \* the batches handed to send_messages, in order
    ex_ret,           \* what the last call of execute returned
    sch_schedule,     \* ContentScheduler.schedule
    sch_now,          \* datetime.now()
    sch_adds,         \* calls of add_to_schedule made
    sch_runs,         \* calls of execute_pending made
    sch_published,    \* history: the entries handed to orchestrator.publish, with the call that did
    sch_ret           \* what the last execute_pending returned

agentVars == <<pc, i, thread, run, run_id, runs, submitted, last_call, last_draft,
               last_validation, response, error, incomplete, cs_available, calls>>

restVars == <<rest_pc, rest_i, rest_st, rest_draft, rest_response>>

cinVars == <<cin_pc, cin_assistant, cin_triage, cin_plan, cin_review, cin_post,
             cin_executed, cin_calls, cin_sb, cin_incomplete, cin_result,
             cin_stages>>

draftVars == <<d_pc, d_max_rounds, d_replies, ctx_round_i, ctx_last_writer,
               ctx_last_safeguard, d_reply, d_recorded, d_session, d_risk, d_events,
               d_response>>

riskVars == <<risk_pc, risk_in, risk_out>>

gateVars == <<gate_pc, gate_in, gate_risk, gate_out>>

cacheVars == <<ctor_pc, ctor_key, ctor_agent_id, ctor_agent, AGENTS,
               create_agent_calls>>

selectVars == <<sel_pc, sel_in, sel_out>>

routeVars == <<rt_pc, rt_globals, rt_req, rt_class, rt_selected, rt_calls, rt_status>>

earlyVars == <<agentVars, restVars, cinVars, draftVars, riskVars, gateVars, cacheVars,
               selectVars, routeVars>>

classifyVars == <<cl_pc, cl_in, cl_out>>

sessVars == <<hd_store, hd_draft_pc, hd_events, hd_n, hd_last>>

batchVars == <<ex_plan, ex_sb, ex_n, ex_sent, ex_ret>>

schedVars == <<sch_schedule, sch_now, sch_adds, sch_runs, sch_published, sch_ret>>

lateVars == <<classifyVars, sessVars, batchVars, schedVars>>

vars == <<earlyVars, lateVars>>

\* What the steps of one entry point leave alone: the state of the others
AgentsFrame == UNCHANGED <<restVars, cinVars, draftVars, riskVars, gateVars,
                           cacheVars, selectVars, routeVars, lateVars>>

RestFrame == UNCHANGED <<agentVars, cinVars, draftVars, riskVars, gateVars,
                         cacheVars, selectVars, routeVars, lateVars>>

CinFrame == UNCHANGED <<agentVars, restVars, draftVars, riskVars, gateVars,
                        cacheVars, selectVars, routeVars, lateVars>>

DraftFrame == UNCHANGED <<agentVars, restVars, cinVars, riskVars, gateVars,
                          cacheVars, selectVars, routeVars, lateVars>>

RiskFrame == UNCHANGED <<agentVars, restVars, cinVars, draftVars, gateVars,
                         cacheVars, selectVars, routeVars, lateVars>>

GateFrame == UNCHANGED <<agentVars, restVars, cinVars, draftVars, riskVars,
                         cacheVars, selectVars, routeVars, lateVars>>

CacheFrame == UNCHANGED <<agentVars, restVars, cinVars, draftVars, riskVars, gateVars,
                          selectVars, routeVars, lateVars>>

SelectFrame == UNCHANGED <<agentVars, restVars, cinVars, draftVars, riskVars, gateVars,
                           cacheVars, routeVars, lateVars>>

RouteFrame == UNCHANGED <<agentVars, restVars, cinVars, draftVars, riskVars, gateVars,
                          cacheVars, selectVars, lateVars>>

ClassifyFrame == UNCHANGED <<earlyVars, sessVars, batchVars, schedVars>>

SessFrame == UNCHANGED <<earlyVars, classifyVars, batchVars, schedVars>>

BatchFrame == UNCHANGED <<earlyVars, classifyVars, sessVars, schedVars>>

SchedFrame == UNCHANGED <<earlyVars, classifyVars, sessVars, batchVars>>

----------------------------------------------------------------------------
(* Bounds of the model *)

\* largest number of tool calls in one requires_action batch
MaxBatch == 2

\* largest number of actions in a plan the planner model writes
MaxActions == 2

\* largest number of high-severity infractions in a safeguard reply
MaxHigh == 3

\* how far below 0 and above 100 the explicit scores given to compute_risk reach
ScoreMargin == 3

\* number of constructors of planner / supervisor agents running at once
MaxCtors == 3

\* Sessions of the store, and human_decision requests served
MaxSessions == 2

MaxDecisions == 2

\* calls of CINExecutor.execute on one plan
MaxExecutes == 2

\* ContentScheduler: the latest hour, the entries added, the execute_pending calls
MaxTime == 2

MaxScheduled == 3

MaxRuns == 2

(* Program constants *)

\* autogen-service/app/config.py:24 (default of MAX_ROUNDS)
MAX_ROUNDS == 5

\* autogen-service/app/config.py:26 (default of REVIEW_THRESHOLD)
REVIEW_THRESHOLD == 70

\* orchestrator.py:44
max_iterations == 3

\* rest_orchestrator.py:131
REST_POLLS == 120

----------------------------------------------------------------------------
(* The run service (external): statuses of a run *)

Statuses ==
    {"queued", "in_progress", "requires_action", "completed", "failed", "cancelled", "expired"}

\* writer_agent.py:111, safeguard_agent.py:99: the statuses the while loop keeps polling on
LoopStatuses == {"queued", "in_progress", "requires_action"}

FailedStatuses == {"failed", "cancelled", "expired"}

\* writer_agent.py:36-62: the tools the writer declares and implements
WriterTools == {"get_fan_context", "calculate_ppv_price"}

\* safeguard_agent.py:37-46: the tool the safeguard declares and implements
SafeguardTools == {"analyze_content_safety"}

\* What the arguments string of a tool call decodes to: a JSON object (also what
\* writer_agent.py:79-83 and safeguard_agent.py:119-123 make of text that is not
\* JSON: {}), or a JSON value that is not an object (a list, a number, null)
ArgKinds == {"object", "non_object"}

\* A tool call of a batch. readable = FALSE: reading its id/function fields raises
\* (the fields of such a call are never read: one representative).
ToolCalls(tools) ==
    {[name |-> n, args |-> a, readable |-> TRUE] :
        n \in tools \cup {"unknown_tool"}, a \in ArgKinds}
    \cup {[name |-> "unknown_tool", args |-> "object", readable |-> FALSE]}

\* The batches the service may ask for: 1..MaxBatch calls; the id of a call is its
\* position in the batch
Batches(tools) ==
    UNION {[1..n -> ToolCalls(tools)] : n \in 1..MaxBatch}

\* The run objects the service may return for a run of an agent with these tools
RunObjects(tools) ==
    {[status |-> s, tool_calls |-> <<>>] : s \in Statuses \ {"requires_action"}}
    \cup {[status |-> "requires_action", tool_calls |-> b] : b \in Batches(tools)}

NoRun == [status |-> "none", tool_calls |-> <<>>]

----------------------------------------------------------------------------
(* Messages.  A text is what json.loads makes of it: a JSON object (with    *)
(* its "draft" and "label" entries), another JSON value, or prose.          *)
(* A draft string is named by the run that wrote it; 0 is the empty draft   *)
(* or an absent key.                                                        *)

Labels == {"green", "yellow", "red"}

Text(kind, draft, label) ==
    [kind |-> kind, draft |-> draft, label |-> label, score |-> 0]

\* A verdict text with its "score" entry (score 0 also stands for no such entry)
Scored(text, score) == [text EXCEPT !.score = score]

\* The scores a safeguard model may write: one inside [0,100], one above it
SafeguardScores == {50, 100 + 1}

\* writer_agent.py:73-77: json.dumps(context), an object with no "draft" and no "label"
WriterUserMessage == [role |-> "user", run |-> 0, text |-> Text("object", 0, "none")]

\* safeguard_agent.py:92-96: json.dumps({"draft": draft})
SafeguardUserMessage(draft) ==
    [role |-> "user", run |-> 0, text |-> Text("object", draft, "none")]

\* What a completed run r of the writer may have written
WriterOutputs(r) ==
    {Text("object", r, "none"), Text("object", 0, "none"),
     Text("json_other", 0, "none"), Text("prose", r, "none")}

\* What a completed run r of the safeguard may have written
SafeguardOutputs(r) ==
    {Scored(Text("object", 0, l), sc) : l \in Labels, sc \in SafeguardScores}
    \cup {Text("object", 0, "none")}
    \cup {Text("json_other", 0, "none"), Text("prose", r, "none")}

AssistantMessage(r, text) == [role |-> "assistant", run |-> r, text |-> text]

NoMessage == [role |-> "none", run |-> 0, text |-> Text("none", 0, "none")]

\* What a call to the run service may answer for run r: a run object, and the
\* message the run has written if it has completed ("none": no new message)
ServiceAnswers(tools, outs, r) ==
    {[run |-> o, message |-> NoMessage] :
        o \in {x \in RunObjects(tools) : x.status # "completed"}}
    \cup {[run |-> [status |-> "completed", tool_calls |-> <<>>],
           message |-> AssistantMessage(r, t)] : t \in outs}

----------------------------------------------------------------------------
(* Tool dispatch *)

\* writer_agent.py:85-107: _get_fan_context and _calculate_ppv_price call args.get,
\* which raises AttributeError when the decoded arguments are not an object
\* (_safe_json_loads, lines 79-83, turns only undecodable text into {})
WriterHandlerRaises(tc) ==
    tc.name \in WriterTools /\ tc.args = "non_object"

\* The JSON a tool output carries: which result it is, and the verdict of a safety analysis
Output(result, label, score) == [result |-> result, label |-> label, score |-> score]

\* writer_agent.py:131-140: the output of one readable tool call
WriterToolResult(tc) ==
    IF tc.name = "get_fan_context" THEN Output("fan_context", "none", 0)
    ELSE IF tc.name = "calculate_ppv_price" THEN Output("ppv_price", "none", 0)
    ELSE Output("{}", "none", 0)

\* safeguard_agent.py:119-127: args.get("text") raises when args is not an object
SafeguardHandlerRaises(tc) ==
    tc.name \in SafeguardTools /\ tc.args = "non_object"

\* The maximum severity Content Safety reports (FourSeverityLevels)
Severities == {0, 2, 4, 6}

\* safeguard_agent.py:64-90: _analyze_text_cs; None (label "none") when the client is
\* not configured or the call raises, else the label/score mapped from the severity
analyze_text_cs(sev) ==
    IF ~cs_available THEN Output("None", "none", 0)
    ELSE Output("analysis",
                IF sev <= 1 THEN "green" ELSE IF sev = 2 THEN "yellow" ELSE "red",
                IF 95 - sev * 25 > 0 THEN 95 - sev * 25 ELSE 0)

\* safeguard_agent.py:125-128: the output of one readable tool call
SafeguardToolResult(tc, sev) ==
    IF tc.name = "analyze_content_safety"
    THEN (IF analyze_text_cs(sev).result = "None"
          THEN Output("default", "green", 90)
          ELSE analyze_text_cs(sev))
    ELSE Output("{}", "none", 0)

\* The positions of the batch whose fields can be read, in batch order
RECURSIVE ReadableIds(_, _)
ReadableIds(tcs, k) ==
    IF k > Len(tcs) THEN <<>>
    ELSE (IF tcs[k].readable THEN <<k>> ELSE <<>>) \o ReadableIds(tcs, k + 1)

\* writer_agent.py:120-140: outputs, one entry per tool call the loop did not skip
\* (line 129: a call whose fields cannot be read is skipped with continue)
WriterOutputsFor(tcs) ==
    LET ids == ReadableIds(tcs, 1)
    IN [k \in 1..Len(ids) |->
            [tool_call_id |-> ids[k], output |-> WriterToolResult(tcs[ids[k]])]]

\* safeguard_agent.py:109-129
SafeguardOutputsFor(tcs, sev) ==
    LET ids == ReadableIds(tcs, 1)
    IN [k \in 1..Len(ids) |->
            [tool_call_id |-> ids[k], output |-> SafeguardToolResult(tcs[ids[k]], sev)]]

----------------------------------------------------------------------------
(* HuntazeAgentOrchestrator.process_message_request *)

\* An entry of the call history: a call of generate_message with the iteration
\* index of its context (orchestrator.py:48-55), a call of validate_message with
\* its draft argument (orchestrator.py:57), or the return of either (generate
\* with the draft it returned, validate with the round it ends)
Call(op, arg) == [op |-> op, arg |-> arg]

NoResponse ==
    [status |-> "none", draft |-> 0, risk |-> "none", score |-> 0, iterations |-> 0]

AgentsOff ==
    /\ pc = "off"
    /\ i = 0
    /\ thread = NoMessage
    /\ run = NoRun
    /\ run_id = 0
    /\ runs = 0
    /\ submitted = <<>>
    /\ last_call = "none"
    /\ last_draft = 0
    /\ last_validation = "none"
    /\ response = NoResponse
    /\ error = "none"
    /\ incomplete = FALSE
    /\ cs_available = FALSE
    /\ calls = <<>>

InitAgents ==
    /\ pc = "start"
    /\ i = 0
    /\ thread = NoMessage
    /\ run = NoRun
    /\ run_id = 0
    /\ runs = 0
    /\ submitted = <<>>
    /\ last_call = "none"
    /\ last_draft = 0
    /\ last_validation = "none"
    /\ response = NoResponse
    /\ error = "none"
    /\ incomplete = FALSE
    /\ cs_available \in BOOLEAN
    /\ calls = <<>>

\* Mutant of MessagesData0: the message list does not show what the run wrote
MessagesData0_SkipsNew(top, a) == top

\* writer_agent.py:151-154, safeguard_agent.py:139-140: messages.data[0] of
\* list_messages, the newest message of the thread: what the run has written if
\* it has written, else the message that was on top before the call
MessagesData0(top, a) == IF a.message = NoMessage THEN top ELSE a.message

\* Mutant of AddressedRun: every call addresses the first run of the thread
AddressedRun_First(id) == 1

\* writer_agent.py:142-144 and 149, safeguard_agent.py:131-133: submit_tool_outputs
\* and get_run are called with run_id=run.id, the id of the object last returned
AddressedRun(id) == id

\* orchestrator.py:35-46: create the thread, enter the retry loop
create_thread ==
    /\ pc = "start"
    /\ pc' = "generate"
    /\ last_call' = "create_thread"
    /\ UNCHANGED <<i, thread, run, run_id, runs, submitted, last_draft, last_validation,
                   response, error, incomplete, cs_available, calls>>
    /\ AgentsFrame

\* writer_agent.py:73-77 and 109: post the user message, create the run
generate_message_create_run ==
    /\ pc = "generate"
    /\ \E a \in ServiceAnswers(WriterTools, WriterOutputs(runs + 1), runs + 1) :
        /\ run' = a.run
        /\ run_id' = runs + 1
        /\ thread' = MessagesData0(WriterUserMessage, a)
    /\ runs' = runs + 1
    /\ pc' = "w_loop"
    /\ last_call' = "create_run"
    /\ calls' = Append(calls, Call("generate", i))
    /\ UNCHANGED <<i, submitted, last_draft, last_validation, response, error,
                   incomplete, cs_available>>
    /\ AgentsFrame

\* writer_agent.py:112-146: the requires_action branch up to the submit_tool_outputs
\* call; a handler that raises ends generate_message and the request
generate_message_tool_calls ==
    /\ pc = "w_loop"
    /\ run.status = "requires_action"
    /\ IF \E k \in 1..Len(run.tool_calls) :
            run.tool_calls[k].readable /\ WriterHandlerRaises(run.tool_calls[k])
       THEN /\ pc' = "raised"
            /\ error' = "AttributeError"
            /\ UNCHANGED <<submitted, last_call>>
       ELSE /\ pc' = "w_submit"
            /\ submitted' = WriterOutputsFor(run.tool_calls)
            /\ last_call' = "submit_tool_outputs"
            /\ UNCHANGED error
    /\ UNCHANGED <<i, thread, run, run_id, runs, last_draft, last_validation, response,
                   incomplete, cs_available, calls>>
    /\ AgentsFrame

\* writer_agent.py:142-144: the run object submit_tool_outputs returns
generate_message_submit_returns ==
    /\ pc = "w_submit"
    /\ \E a \in ServiceAnswers(WriterTools, WriterOutputs(AddressedRun(run_id)),
                                AddressedRun(run_id)) :
        /\ run' = a.run
        /\ run_id' = AddressedRun(run_id)
        /\ thread' = MessagesData0(thread, a)
    /\ pc' = "w_loop"
    /\ submitted' = <<>>
    /\ UNCHANGED <<i, runs, last_call, last_draft, last_validation,
                   response, error, incomplete, cs_available, calls>>
    /\ AgentsFrame

\* writer_agent.py:148-149: sleep one second, read the run again
generate_message_poll ==
    /\ pc = "w_loop"
    /\ run.status \in {"queued", "in_progress"}
    /\ \E a \in ServiceAnswers(WriterTools, WriterOutputs(AddressedRun(run_id)),
                                AddressedRun(run_id)) :
        /\ run' = a.run
        /\ run_id' = AddressedRun(run_id)
        /\ thread' = MessagesData0(thread, a)
    /\ last_call' = "get_run"
    /\ UNCHANGED <<pc, i, runs, submitted, last_draft, last_validation, response,
                   error, incomplete, cs_available, calls>>
    /\ AgentsFrame

\* Mutant of DraftOfResult: a draft once taken is kept over later rounds
DraftOfResult_KeepsEarlier(draft_result) ==
    IF last_draft # 0 THEN last_draft ELSE draft_result.draft

\* orchestrator.py:56: last_draft = draft_result.get("draft", "")
DraftOfResult(draft_result) == draft_result.draft

\* writer_agent.py:151-158 with orchestrator.py:56: the loop is left on any status
\* outside LoopStatuses; the latest message of the thread is parsed, prose is
\* wrapped as the draft, and the orchestrator reads draft_result.get("draft", "")
generate_message_return ==
    /\ pc = "w_loop"
    /\ run.status \notin LoopStatuses
    /\ last_call' = "list_messages"
    /\ IF thread.text.kind = "json_other"
       THEN /\ pc' = "raised"
            /\ error' = "AttributeError"
            /\ UNCHANGED <<last_draft, incomplete, calls>>
       ELSE /\ pc' = "validate"
            /\ last_draft' = DraftOfResult(thread.text)
            /\ incomplete' = (incomplete \/ run.status # "completed")
            /\ calls' = Append(calls, Call("generate_returns", thread.text.draft))
            /\ UNCHANGED error
    /\ UNCHANGED <<i, thread, run, run_id, runs, submitted, last_validation, response,
                   cs_available>>
    /\ AgentsFrame

\* safeguard_agent.py:92-98: post the user message, create the run
validate_message_create_run ==
    /\ pc = "validate"
    /\ \E a \in ServiceAnswers(SafeguardTools, SafeguardOutputs(runs + 1), runs + 1) :
        /\ run' = a.run
        /\ run_id' = runs + 1
        /\ thread' = MessagesData0(SafeguardUserMessage(last_draft), a)
    /\ runs' = runs + 1
    /\ pc' = "s_loop"
    /\ last_call' = "create_run"
    /\ calls' = Append(calls, Call("validate", last_draft))
    /\ UNCHANGED <<i, submitted, last_draft, last_validation, response, error,
                   incomplete, cs_available>>
    /\ AgentsFrame

\* safeguard_agent.py:100-134: the requires_action branch up to the
\* submit_tool_outputs call; a handler that raises ends validate_message
validate_message_tool_calls ==
    /\ pc = "s_loop"
    /\ run.status = "requires_action"
    /\ IF \E k \in 1..Len(run.tool_calls) :
            run.tool_calls[k].readable /\ SafeguardHandlerRaises(run.tool_calls[k])
       THEN /\ pc' = "raised"
            /\ error' = "AttributeError"
            /\ UNCHANGED <<submitted, last_call>>
       ELSE /\ pc' = "s_submit"
            /\ \E sev \in Severities :
                   submitted' = SafeguardOutputsFor(run.tool_calls, sev)
            /\ last_call' = "submit_tool_outputs"
            /\ UNCHANGED error
    /\ UNCHANGED <<i, thread, run, run_id, runs, last_draft, last_validation, response,
                   incomplete, cs_available, calls>>
    /\ AgentsFrame

\* safeguard_agent.py:131-133: the run object submit_tool_outputs returns
validate_message_submit_returns ==
    /\ pc = "s_submit"
    /\ \E a \in ServiceAnswers(SafeguardTools, SafeguardOutputs(AddressedRun(run_id)),
                                AddressedRun(run_id)) :
        /\ run' = a.run
        /\ run_id' = AddressedRun(run_id)
        /\ thread' = MessagesData0(thread, a)
    /\ pc' = "s_loop"
    /\ submitted' = <<>>
    /\ UNCHANGED <<i, runs, last_call, last_draft, last_validation,
                   response, error, incomplete, cs_available, calls>>
    /\ AgentsFrame

\* safeguard_agent.py:136-137: time.sleep(1) -- the module never imports time
\* (lines 1-6), so the statement raises NameError and get_run is never reached
validate_message_poll ==
    /\ pc = "s_loop"
    /\ run.status \in {"queued", "in_progress"}
    /\ pc' = "raised"
    /\ error' = "NameError"
    /\ UNCHANGED <<i, thread, run, run_id, runs, submitted, last_call, last_draft,
                   last_validation, response, incomplete, cs_available, calls>>
    /\ AgentsFrame

\* Mutant of Accepts: a yellow verdict is accepted as well
Accepts_YellowToo(verdict) == verdict \in {"green", "yellow"}

\* orchestrator.py:59: the verdict that ends the retry loop with status ok
Accepts(verdict) == verdict = "green"

\* Mutant of HasNextIteration: one iteration more than max_iterations
HasNextIteration_OneMore(n) == n + 1 <= max_iterations

\* orchestrator.py:47: for i in range(max_iterations) has a round after round n
HasNextIteration(n) == n + 1 < max_iterations

\* safeguard_agent.py:139-144 with orchestrator.py:57-66: the latest message is
\* parsed (prose becomes the yellow fallback verdict of score 50, a JSON object is
\* the verdict with the label and score it has); the orchestrator returns ok
\* on label green, else goes to the next iteration
\* orchestrator.py:68-74: needs_review once max_iterations are used up
validate_message_return ==
    /\ pc = "s_loop"
    /\ run.status \notin LoopStatuses
    /\ last_call' = "list_messages"
    /\ IF thread.text.kind = "json_other"
       THEN /\ pc' = "raised"
            /\ error' = "AttributeError"
            /\ UNCHANGED <<i, last_validation, response, incomplete, calls>>
       ELSE LET verdict == IF thread.text.kind = "prose" THEN "yellow"
                           ELSE thread.text.label
                score == IF thread.text.kind = "prose" THEN 50
                         ELSE thread.text.score
                inc == incomplete \/ run.status # "completed"
            IN /\ last_validation' = verdict
               /\ incomplete' = inc
               /\ calls' = Append(calls, Call("validate_returns", i))
               /\ UNCHANGED error
               /\ IF Accepts(verdict)
                  THEN /\ pc' = "returned"
                       /\ response' = [status |-> "ok", draft |-> last_draft,
                                       risk |-> verdict, score |-> score,
                                       iterations |-> i + 1]
                       /\ UNCHANGED i
                  ELSE IF HasNextIteration(i)
                  THEN /\ pc' = "generate"
                       /\ i' = i + 1
                       /\ UNCHANGED response
                  ELSE /\ pc' = "returned"
                       /\ response' = [status |-> "needs_review", draft |-> last_draft,
                                       risk |-> verdict, score |-> score,
                                       iterations |-> max_iterations]
                       /\ UNCHANGED i
    /\ UNCHANGED <<thread, run, run_id, runs, submitted, last_draft, cs_available>>
    /\ AgentsFrame

AgentsNext ==
    \/ create_thread
    \/ generate_message_create_run
    \/ generate_message_tool_calls
    \/ generate_message_submit_returns
    \/ generate_message_poll
    \/ generate_message_return
    \/ validate_message_create_run
    \/ validate_message_tool_calls
    \/ validate_message_submit_returns
    \/ validate_message_poll
    \/ validate_message_return

----------------------------------------------------------------------------
(* RestOrchestrator.process_message_request *)

RestOff ==
    /\ rest_pc = "off"
    /\ rest_i = 0
    /\ rest_st = "none"
    /\ rest_draft = "none"
    /\ rest_response = "none"

InitRest ==
    /\ rest_pc = "start"
    /\ rest_i = 0
    /\ rest_st = "none"
    /\ rest_draft = "none"
    /\ rest_response = "none"

\* rest_orchestrator.py:58-63: _post raises RuntimeError on an HTTP status >= 300
\* rest_orchestrator.py:75-128: assistant, thread, user message and run are posted
rest_create_run ==
    /\ rest_pc = "start"
    /\ \E posted \in BOOLEAN :
        rest_pc' = IF posted THEN "poll" ELSE "raised"
    /\ UNCHANGED <<rest_i, rest_st, rest_draft, rest_response>>
    /\ RestFrame

\* rest_orchestrator.py:131-136: one round of the for loop: read the run; break on
\* a final status, else sleep one second
rest_poll ==
    /\ rest_pc = "poll"
    /\ rest_i < REST_POLLS
    /\ \E st \in Statuses :
        /\ rest_st' = st
        /\ IF st \in {"completed", "failed", "cancelled", "expired"}
           THEN rest_pc' = "messages" /\ UNCHANGED rest_i
           ELSE rest_i' = rest_i + 1 /\ UNCHANGED rest_pc
    /\ UNCHANGED <<rest_draft, rest_response>>
    /\ RestFrame

\* rest_orchestrator.py:137-138: the for loop ran out without a break
rest_timeout ==
    /\ rest_pc = "poll"
    /\ rest_i = REST_POLLS
    /\ rest_pc' = "raised"
    /\ UNCHANGED <<rest_i, rest_st, rest_draft, rest_response>>
    /\ RestFrame

\* rest_orchestrator.py:140-161: the latest message of the thread is read, whatever
\* the final status: the run's reply when it completed, else the prompt the
\* orchestrator posted itself (or nothing usable); the status returned is "ok"
rest_return ==
    /\ rest_pc = "messages"
    /\ \E d \in (IF rest_st = "completed" THEN {"reply", ""} ELSE {"prompt", ""}) :
        rest_draft' = d
    /\ rest_response' = "ok"
    /\ rest_pc' = "returned"
    /\ UNCHANGED <<rest_i, rest_st>>
    /\ RestFrame

RestNext ==
    \/ rest_create_run
    \/ rest_poll
    \/ rest_timeout
    \/ rest_return

----------------------------------------------------------------------------
(* CINAgentOrchestrator.process and its stages *)

\* The scores a model may write in a verdict: around the threshold, the ends of
\* the range, and one outside it
ModelScores == {0, REVIEW_THRESHOLD - 1, REVIEW_THRESHOLD, 100, 101}

CinText(kind, n, label, score) == [kind |-> kind, n |-> n, label |-> label, score |-> score]

NoText == CinText("none", 0, "none", 0)

\* What a completed run may have written as its assistant message: an object
\* whose "plan" is a list of n well-formed actions ("plan"), an object whose
\* "plan" is a list of n items one of which is no object with an "action"
\* ("bad_plan"), a verdict (an object with no "plan"), a JSON value that is not
\* an object ("json_other"), or prose ("other")
CinTexts ==
    {CinText("plan", n, "none", 0) : n \in 0..MaxActions}
    \cup {CinText("bad_plan", n, "none", 0) : n \in 1..MaxActions}
    \cup {CinText("verdict", 0, l, sc) : l \in Labels, sc \in ModelScores}
    \cup {CinText("json_other", 0, "none", 0), CinText("other", 0, "none", 0)}

\* create_and_process_run (SDK) returns once the run is final: completed with a
\* new assistant message, or failed / cancelled / expired with none
CinRunOutcomes ==
    {[status |-> "completed", message |-> t] : t \in CinTexts}
    \cup {[status |-> st, message |-> NoText] : st \in FailedStatuses}

CinAssistantAfter(o) == IF o.status = "completed" THEN o.message ELSE cin_assistant

\* Mutant of CINPlannerAgent_plan: the items of the list are not looked at
CINPlannerAgent_plan_AnyList(text) ==
    IF text.kind \in {"plan", "bad_plan"}
    THEN [n |-> text.n, wrapped |-> FALSE, text |-> text]
    ELSE [n |-> 1, wrapped |-> TRUE, text |-> text]

\* cin/planner_agent.py:61-74: the reply is returned as it is (text: the object)
\* when it is an object whose "plan" is a list of actions; anything else is wrapped
\* into one send_message action (text: the text wrapped as data.text)
CINPlannerAgent_plan(text) ==
    IF text.kind = "plan"
    THEN [n |-> text.n, wrapped |-> FALSE, text |-> text]
    ELSE [n |-> 1, wrapped |-> TRUE, text |-> text]

\* cin/supervisor_agent.py:51-64: the reply is kept when its label is one of the
\* three and its score a number in [0,100]; anything else is yellow / 60
CINSupervisorAgent_review(text) ==
    IF text.kind = "verdict" /\ text.label \in Labels /\ text.score >= 0 /\ text.score <= 100
    THEN [label |-> text.label, score |-> text.score]
    ELSE [label |-> "yellow", score |-> 60]

\* Mutant of NextStage: the plan is executed before it is reviewed
NextStage_ExecuteFirst(stage) ==
    CASE stage = "triage" -> "fan360"
      [] stage = "fan360" -> "plan"
      [] stage = "plan" -> "execute"
      [] stage = "execute" -> "pre_review"
      [] stage = "pre_review" -> "post_review"
      [] OTHER -> "returned"

\* cin/orchestrator.py:61-89: the stage process runs after a stage has returned
\* (after the pre-execution review: unless the gate halts)
NextStage(stage) ==
    CASE stage = "triage" -> "fan360"
      [] stage = "fan360" -> "plan"
      [] stage = "plan" -> "pre_review"
      [] stage = "pre_review" -> "execute"
      [] stage = "execute" -> "post_review"
      [] OTHER -> "returned"

\* Mutant of CINExecutor_execute: acknowledged counts what was delivered
CINExecutor_execute_CountsDelivered(n, sb, delivered) ==
    [acknowledged |-> IF sb /\ n > 0 /\ delivered THEN n ELSE 0,
     published |-> IF sb /\ n > 0 /\ delivered THEN n ELSE 0]

\* cin/executor_agent.py:30-74: the counts execute returns for a plan of n actions:
\* with no Service Bus configured (line 33) and when sending raises (line 72)
\* published is 0, else the number of messages sent
CINExecutor_execute(n, sb, delivered) ==
    [acknowledged |-> n,
     published |-> IF sb /\ n > 0 /\ delivered THEN n ELSE 0]

\* Mutant of CINExecutor_sends: one send call per action
CINExecutor_sends_PerAction(n, sb) == IF sb THEN n ELSE 0

\* cin/executor_agent.py:69-70: the calls of send_messages execute makes: one for
\* all actions of the plan, none for an empty plan or with no Service Bus
CINExecutor_sends(n, sb) == IF sb /\ n > 0 THEN 1 ELSE 0

\* Mutant of PreGateHalts: the red veto made to depend on the score as well
PreGateHalts_ScoreGated(review) ==
    review.label = "red" /\ review.score >= REVIEW_THRESHOLD

\* cin/orchestrator.py:79: the pre-execution gate
PreGateHalts(review) == review.label = "red"

\* cin/orchestrator.py:88: the post-execution gate
PostGateStatus(post) == IF post.label = "green" THEN "ok" ELSE "needs_review"

NoVerdict == [label |-> "none", score |-> 0]

NoPlan == [n |-> 0, wrapped |-> FALSE, text |-> NoText]

NoExec == [acknowledged |-> -1, published |-> -1]

NoCalls == [execute |-> 0, review |-> 0, send |-> 0, sent |-> 0]

CinOff ==
    /\ cin_pc = "off"
    /\ cin_assistant = NoText
    /\ cin_triage = "none"
    /\ cin_plan = NoPlan
    /\ cin_review = NoVerdict
    /\ cin_post = NoVerdict
    /\ cin_executed = NoExec
    /\ cin_calls = NoCalls
    /\ cin_sb = FALSE
    /\ cin_incomplete = FALSE
    /\ cin_result = [status |-> "none", executed |-> FALSE]
    /\ cin_stages = <<>>

InitCin ==
    /\ cin_pc = "triage"
    /\ cin_assistant = NoText
    /\ cin_triage = "none"
    /\ cin_plan = NoPlan
    /\ cin_review = NoVerdict
    /\ cin_post = NoVerdict
    /\ cin_executed = NoExec
    /\ cin_calls = NoCalls
    /\ cin_sb \in BOOLEAN
    /\ cin_incomplete = FALSE
    /\ cin_result = [status |-> "none", executed |-> FALSE]
    /\ cin_stages = <<>>

\* cin/orchestrator.py:62-69: the thread is created; triage comes from the HTTP
\* function, or, when that gives None, from the triage agent
\* cin/triage_agent.py:29-46: the latest message is parsed (after a run that did
\* not complete this is the user message just posted); prose gives the default
cin_triage_step ==
    /\ cin_pc = "triage"
    /\ \/ /\ cin_triage' = "http"
          /\ UNCHANGED <<cin_assistant, cin_incomplete>>
       \/ \E o \in CinRunOutcomes :
            /\ cin_assistant' = CinAssistantAfter(o)
            /\ cin_incomplete' = (o.status # "completed")
            /\ cin_triage' = IF o.status # "completed" THEN "user_message"
                             ELSE IF o.message.kind = "other" THEN "default"
                             ELSE IF o.message.kind = "json_other" THEN "json_other"
                             ELSE "reply"
    /\ cin_pc' = NextStage("triage")
    /\ cin_stages' = Append(cin_stages, "triage")
    /\ UNCHANGED <<cin_plan, cin_review, cin_post, cin_executed, cin_calls, cin_sb,
                   cin_result>>
    /\ CinFrame

\* cin/orchestrator.py:72 with 28-42: the profile, or {} on any failure; no state
\* of the pipeline depends on which
cin_fan360_step ==
    /\ cin_pc = "fan360"
    /\ cin_pc' = NextStage("fan360")
    /\ cin_stages' = Append(cin_stages, "fan360")
    /\ UNCHANGED <<cin_assistant, cin_triage, cin_plan, cin_review, cin_post,
                   cin_executed, cin_calls, cin_sb, cin_incomplete, cin_result>>
    /\ CinFrame

\* cin/orchestrator.py:75 with cin/planner_agent.py:46-74: the planner reads the
\* most recent assistant message of the thread, whichever run wrote it
cin_plan_step ==
    /\ cin_pc = "plan"
    /\ \E o \in CinRunOutcomes :
        /\ cin_assistant' = CinAssistantAfter(o)
        /\ cin_incomplete' = (cin_incomplete \/ o.status # "completed")
        /\ cin_plan' = CINPlannerAgent_plan(CinAssistantAfter(o))
    /\ cin_pc' = NextStage("plan")
    /\ cin_stages' = Append(cin_stages, "plan")
    /\ UNCHANGED <<cin_triage, cin_review, cin_post, cin_executed, cin_calls, cin_sb,
                   cin_result>>
    /\ CinFrame

\* cin/orchestrator.py:78-80 with cin/supervisor_agent.py:37-64
cin_pre_review_step ==
    /\ cin_pc = "pre_review"
    /\ \E o \in CinRunOutcomes :
        LET review == CINSupervisorAgent_review(CinAssistantAfter(o))
        IN /\ cin_assistant' = CinAssistantAfter(o)
           /\ cin_incomplete' = (cin_incomplete \/ o.status # "completed")
           /\ cin_review' = review
           /\ IF PreGateHalts(review)
              THEN /\ cin_pc' = "returned"
                   /\ cin_result' = [status |-> "needs_review", executed |-> FALSE]
              ELSE /\ cin_pc' = NextStage("pre_review")
                   /\ UNCHANGED cin_result
    /\ cin_calls' = [cin_calls EXCEPT !.review = @ + 1]
    /\ cin_stages' = Append(cin_stages, "pre_review")
    /\ UNCHANGED <<cin_triage, cin_plan, cin_post, cin_executed, cin_sb>>
    /\ CinFrame

\* cin/orchestrator.py:83 with cin/executor_agent.py:30-74: with no Service Bus
\* configured nothing is sent; else the actions go out in one send_messages call,
\* which may raise (published stays 0); an empty plan sends nothing
cin_execute_step ==
    /\ cin_pc = "execute"
    /\ \E delivered \in BOOLEAN :
        LET exec_result == CINExecutor_execute(cin_plan.n, cin_sb, delivered)
        IN /\ cin_executed' = exec_result
           /\ cin_calls' = [cin_calls EXCEPT
                                !.execute = @ + 1,
                                !.send = @ + CINExecutor_sends(cin_plan.n, cin_sb),
                                !.sent = @ + exec_result.published]
    /\ cin_pc' = NextStage("execute")
    /\ cin_stages' = Append(cin_stages, "execute")
    /\ UNCHANGED <<cin_assistant, cin_triage, cin_plan, cin_review, cin_post, cin_sb,
                   cin_incomplete, cin_result>>
    /\ CinFrame

\* cin/orchestrator.py:86-89 with cin/supervisor_agent.py:37-64
cin_post_review_step ==
    /\ cin_pc = "post_review"
    /\ \E o \in CinRunOutcomes :
        LET post == CINSupervisorAgent_review(CinAssistantAfter(o))
        IN /\ cin_assistant' = CinAssistantAfter(o)
           /\ cin_incomplete' = (cin_incomplete \/ o.status # "completed")
           /\ cin_post' = post
           /\ cin_result' = [status |-> PostGateStatus(post), executed |-> TRUE]
    /\ cin_pc' = NextStage("post_review")
    /\ cin_calls' = [cin_calls EXCEPT !.review = @ + 1]
    /\ cin_stages' = Append(cin_stages, "post_review")
    /\ UNCHANGED <<cin_triage, cin_plan, cin_review, cin_executed, cin_sb>>
    /\ CinFrame

CinNext ==
    \/ cin_triage_step
    \/ cin_fan360_step
    \/ cin_plan_step
    \/ cin_pre_review_step
    \/ cin_execute_step
    \/ cin_post_review_step

----------------------------------------------------------------------------
(* autogen-service: ChatContext, compute_risk and the /draft handler *)

Min(a, b) == IF a <= b THEN a ELSE b

Max(a, b) == IF a >= b THEN a ELSE b

\* A verdict as JSON: its label, its score (absent, an integer, or a value int()
\* rejects) and the number of infractions of severity high
Verdict(label, score_kind, score, high) ==
    [label |-> label, score_kind |-> score_kind, score |-> score, high |-> high]

\* The replies the safeguard agent may give: a JSON object with a label (any
\* string), with or without a score, and infractions; or text that is not such JSON
SafeguardReplies ==
    {[kind |-> "json", verdict |-> Verdict(l, "absent", 0, h)] :
        l \in Labels \cup {"other"}, h \in 0..MaxHigh}
    \cup {[kind |-> "json", verdict |-> Verdict(l, "int", sc, h)] :
        l \in Labels \cup {"other"}, sc \in {REVIEW_THRESHOLD - 1, REVIEW_THRESHOLD},
        h \in 0..MaxHigh}
    \cup {[kind |-> "invalid", verdict |-> Verdict("none", "absent", 0, 0)]}

NoReply == [kind |-> "none", verdict |-> Verdict("none", "absent", 0, 0)]

\* autogen-service/app/models.py:49-52: SafeguardReply has label and infractions
\* and forbids any other key: a reply that carries a score does not validate
SafeguardReply_validates(reply) ==
    reply.kind = "json" /\ reply.verdict.score_kind = "absent"

\* autogen-service/app/agents.py:72-82: what record stores as last_safeguard
record_safeguard(reply) ==
    IF SafeguardReply_validates(reply)
    THEN reply.verdict
    ELSE Verdict("yellow", "absent", 0, 0)

\* autogen-service/app/utils/risk.py:12
Baseline(label) ==
    IF label = "green" THEN 20
    ELSE IF label = "red" THEN 90
    ELSE 60

\* Mutant of compute_risk: the explicit score is used as it comes
compute_risk_Unclamped(safeguard_json) ==
    IF safeguard_json.score_kind = "int"
    THEN [label |-> safeguard_json.label,
          score |-> safeguard_json.score,
          high |-> safeguard_json.high]
    ELSE [label |-> safeguard_json.label,
          score |-> Min(100, Baseline(safeguard_json.label)
                              + Min(10, 5 * safeguard_json.high)),
          high |-> safeguard_json.high]

\* Mutant of compute_risk: 5 per high-severity infraction without the cap of 10
compute_risk_UncappedBonus(safeguard_json) ==
    IF safeguard_json.score_kind = "int"
    THEN [label |-> safeguard_json.label,
          score |-> Max(0, Min(100, safeguard_json.score)),
          high |-> safeguard_json.high]
    ELSE [label |-> safeguard_json.label,
          score |-> Min(100, Baseline(safeguard_json.label)
                              + 5 * safeguard_json.high),
          high |-> safeguard_json.high]

\* autogen-service/app/utils/risk.py:1-15: a score int() accepts is clamped and
\* used; with no score, or one int() rejects, the score is derived from the label
\* and the infractions of severity high; label and infractions are passed through
compute_risk(safeguard_json) ==
    IF safeguard_json.score_kind = "int"
    THEN [label |-> safeguard_json.label,
          score |-> Max(0, Min(100, safeguard_json.score)),
          high |-> safeguard_json.high]
    ELSE [label |-> safeguard_json.label,
          score |-> Min(100, Baseline(safeguard_json.label)
                              + Min(10, 5 * safeguard_json.high)),
          high |-> safeguard_json.high]

\* Mutant of NeedsReview: the top score is let through
NeedsReview_BelowTop(risk) == risk.score >= REVIEW_THRESHOLD /\ risk.score < 100

\* autogen-service/app/main.py:66: the gate of the /draft flow
NeedsReview(risk) == risk.score >= REVIEW_THRESHOLD

\* agents.py:56: last_safeguard is None until a reply of the safeguard is recorded
NoSafeguard == Verdict("None", "absent", 0, 0)

NoSession == [status |-> "none", step |-> "none"]

NoRisk == [label |-> "none", score |-> 0, high |-> 0]

DraftOff ==
    /\ d_pc = "off"
    /\ d_max_rounds = 0
    /\ d_replies = 0
    /\ ctx_round_i = 0
    /\ ctx_last_writer = "None"
    /\ ctx_last_safeguard = NoSafeguard
    /\ d_reply = NoReply
    /\ d_recorded = NoReply
    /\ d_session = NoSession
    /\ d_risk = NoRisk
    /\ d_events = 0
    /\ d_response = "none"

InitDraft ==
    /\ d_pc = "start"
    /\ d_max_rounds = 0
    /\ d_replies = 0
    /\ ctx_round_i = 0
    /\ ctx_last_writer = "None"
    /\ ctx_last_safeguard = NoSafeguard
    /\ d_reply = NoReply
    /\ d_recorded = NoReply
    /\ d_session = NoSession
    /\ d_risk = NoRisk
    /\ d_events = 0
    /\ d_response = "none"

\* autogen-service/app/main.py:36-47 with store/dynamodb_store.py:19-32 and
\* agents.py:50-56: the session is stored as running, the team and its context built
draft_start ==
    /\ d_pc = "start"
    /\ \E max_rounds \in 1..(MAX_ROUNDS + 1) :
        d_max_rounds' = Min(max_rounds, MAX_ROUNDS)
    /\ d_session' = [status |-> "running", step |-> "INIT"]
    /\ d_pc' = "chat"
    /\ UNCHANGED <<d_replies, ctx_round_i, ctx_last_writer, ctx_last_safeguard,
                   d_reply, d_recorded, d_risk, d_events, d_response>>
    /\ DraftFrame

\* agents.py:85-116 with 58-71: a reply of the writer is recorded: strict JSON
\* gives its draft, anything else is kept as the draft; a store failure in
\* append_message is swallowed (line 114) after round_i was incremented
record_writer ==
    /\ d_pc = "chat"
    /\ d_replies + 1 < d_max_rounds
    /\ d_replies' = d_replies + 1
    /\ ctx_round_i' = ctx_round_i + 1
    /\ \E stored \in BOOLEAN, valid \in BOOLEAN :
        ctx_last_writer' = IF ~stored THEN ctx_last_writer
                           ELSE IF valid THEN "draft" ELSE "raw"
    /\ UNCHANGED <<d_pc, d_max_rounds, ctx_last_safeguard, d_reply, d_recorded,
                   d_session, d_risk, d_events, d_response>>
    /\ DraftFrame

\* agents.py:85-116 with 58-61 and 72-82: a reply of the safeguard is recorded
record_safeguard_reply ==
    /\ d_pc = "chat"
    /\ d_replies + 1 < d_max_rounds
    /\ d_replies' = d_replies + 1
    /\ \E stored \in BOOLEAN, reply \in SafeguardReplies :
        /\ d_reply' = reply
        /\ d_recorded' = IF stored THEN reply ELSE d_recorded
        /\ ctx_last_safeguard' = IF stored THEN record_safeguard(reply)
                                  ELSE ctx_last_safeguard
    /\ UNCHANGED <<d_pc, d_max_rounds, ctx_round_i, ctx_last_writer, d_session, d_risk,
                   d_events, d_response>>
    /\ DraftFrame

SessionAfterGate_AlwaysReady(risk) == [status |-> "ready", step |-> "READY"]

\* autogen-service/app/main.py:66-67 and 86: the status and step update_status is
\* given on either side of the gate
SessionAfterGate(risk) ==
    IF NeedsReview(risk)
    THEN [status |-> "needs_review", step |-> "REVIEW"]
    ELSE [status |-> "ready", step |-> "READY"]

\* autogen-service/app/main.py:59-89 with services/events.py:8-20: the chat is
\* over; the risk is computed from the last recorded verdict (yellow when there is
\* none) and tested against the threshold; the session is updated before the
\* review_needed event is posted; update_status raises when the store fails and
\* post_event raises when the webhook fails
draft_finish ==
    /\ d_pc = "chat"
    /\ LET safeguard_json == IF ctx_last_safeguard = NoSafeguard
                             THEN Verdict("yellow", "absent", 0, 0)
                             ELSE ctx_last_safeguard
           risk == compute_risk(safeguard_json)
       IN /\ d_risk' = risk
          /\ \E updated \in BOOLEAN :
                IF ~updated
                THEN /\ d_pc' = "update_status_raised"
                     /\ UNCHANGED <<d_session, d_events, d_response>>
                ELSE
                /\ d_session' = SessionAfterGate(risk)
                /\ IF NeedsReview(risk)
                   THEN \E posted \in BOOLEAN :
                        IF posted
                        THEN /\ d_events' = d_events + 1
                             /\ d_response' = "needs_review"
                             /\ d_pc' = "done"
                        ELSE /\ d_pc' = "raised"
                             /\ UNCHANGED <<d_events, d_response>>
                   ELSE /\ d_response' = "ok"
                        /\ d_pc' = "done"
                        /\ UNCHANGED d_events
    /\ UNCHANGED <<d_max_rounds, d_replies, ctx_round_i, ctx_last_writer,
                   ctx_last_safeguard, d_reply, d_recorded>>
    /\ DraftFrame

DraftNext ==
    \/ draft_start
    \/ record_writer
    \/ record_safeguard_reply
    \/ draft_finish

----------------------------------------------------------------------------
(* autogen-service: compute_risk on its own *)

\* The verdicts compute_risk is given: a label (one of the three or another
\* string), a score that is absent, an integer around [0,100], or a value int()
\* rejects, and 0..MaxHigh infractions of severity high
RiskInputs ==
    {Verdict(l, "int", sc, h) :
        l \in Labels \cup {"other"}, sc \in (0 - ScoreMargin)..(100 + ScoreMargin),
        h \in 0..MaxHigh}
    \cup {Verdict(l, k, 0, h) :
        l \in Labels \cup {"other"}, k \in {"absent", "bad"}, h \in 0..MaxHigh}

RiskOff ==
    /\ risk_pc = "off"
    /\ risk_in = NoSafeguard
    /\ risk_out = NoRisk

InitRisk ==
    /\ risk_pc = "call"
    /\ risk_in \in RiskInputs
    /\ risk_out = NoRisk

\* autogen-service/app/utils/risk.py:1-15: the call
compute_risk_call ==
    /\ risk_pc = "call"
    /\ risk_out' = compute_risk(risk_in)
    /\ risk_pc' = "done"
    /\ UNCHANGED risk_in
    /\ RiskFrame

RiskNext == compute_risk_call

----------------------------------------------------------------------------
(* autogen-service: the gate of draft on two verdicts of the same label *)

\* The verdicts of label l the gate is asked about: with an explicit integer
\* score around [0,100], or with no score and 0..MaxHigh infractions of severity high
GateVerdicts(l) ==
    {Verdict(l, "int", sc, 0) : sc \in (0 - ScoreMargin)..(100 + ScoreMargin)}
    \cup {Verdict(l, "absent", 0, h) : h \in 0..MaxHigh}

\* Pairs of verdicts of one label
GateInputs ==
    UNION {GateVerdicts(l) \X GateVerdicts(l) : l \in Labels \cup {"other"}}

GateOff ==
    /\ gate_pc = "off"
    /\ gate_in = <<NoSafeguard, NoSafeguard>>
    /\ gate_risk = <<NoRisk, NoRisk>>
    /\ gate_out = <<FALSE, FALSE>>

InitGate ==
    /\ gate_pc = "decide"
    /\ gate_in \in GateInputs
    /\ gate_risk = <<NoRisk, NoRisk>>
    /\ gate_out = <<FALSE, FALSE>>

\* autogen-service/app/main.py:64-66: risk = compute_risk(safeguard_json) and the
\* test against the threshold, for each of the two verdicts
gate_decide ==
    /\ gate_pc = "decide"
    /\ gate_risk' = <<compute_risk(gate_in[1]), compute_risk(gate_in[2])>>
    /\ gate_out' = <<NeedsReview(compute_risk(gate_in[1])),
                     NeedsReview(compute_risk(gate_in[2]))>>
    /\ gate_pc' = "done"
    /\ UNCHANGED gate_in
    /\ GateFrame

GateNext == gate_decide

----------------------------------------------------------------------------
(* Construction of CINPlannerAgent / CINSupervisorAgent instances              *)
(* (cin/planner_agent.py:22-44, cin/supervisor_agent.py:15-35): every         *)
(* constructor is a thread of its own; a step is what it does between two     *)
(* points where another thread may run (the calls to the agent service block) *)

Ctors == 1..MaxCtors

\* The (model, name) keys: the default model with the two default names
CacheKeys == {"cin-planner", "cin-supervisor"}

CacheOff ==
    /\ ctor_pc = [c \in Ctors |-> "off"]
    /\ ctor_key = [c \in Ctors |-> "cin-planner"]
    /\ ctor_agent_id = [c \in Ctors |-> 0]
    /\ ctor_agent = [c \in Ctors |-> 0]
    /\ AGENTS = [k \in CacheKeys |-> 0]
    /\ create_agent_calls = [k \in CacheKeys |-> 0]

\* planner_agent.py:22: _AGENTS = {} when the class is made; no agent created yet
InitCache ==
    /\ ctor_pc = [c \in Ctors |-> "get"]
    /\ ctor_key \in [Ctors -> CacheKeys]
    /\ ctor_agent_id = [c \in Ctors |-> 0]
    /\ ctor_agent = [c \in Ctors |-> 0]
    /\ AGENTS = [k \in CacheKeys |-> 0]
    /\ create_agent_calls = [k \in CacheKeys |-> 0]

\* The id the agent service gives the next agent it creates (ids are never reused)
NewAgentId == 1 + create_agent_calls["cin-planner"] + create_agent_calls["cin-supervisor"]

\* planner_agent.py:28-30, supervisor_agent.py:21-23:
\* agent_id = self._AGENTS.get(key); if agent_id: ... else: ...
ctor_get(c) ==
    /\ ctor_pc[c] = "get"
    /\ ctor_agent_id' = [ctor_agent_id EXCEPT ![c] = AGENTS[ctor_key[c]]]
    /\ ctor_pc' = [ctor_pc EXCEPT ![c] = IF AGENTS[ctor_key[c]] # 0
                                         THEN "get_agent" ELSE "create_agent"]
    /\ UNCHANGED <<ctor_key, ctor_agent, AGENTS, create_agent_calls>>
    /\ CacheFrame

\* planner_agent.py:31, supervisor_agent.py:24: self.agent = get_agent(agent_id)
ctor_get_agent(c) ==
    /\ ctor_pc[c] = "get_agent"
    /\ ctor_agent' = [ctor_agent EXCEPT ![c] = ctor_agent_id[c]]
    /\ ctor_pc' = [ctor_pc EXCEPT ![c] = "done"]
    /\ UNCHANGED <<ctor_key, ctor_agent_id, AGENTS, create_agent_calls>>
    /\ CacheFrame

\* planner_agent.py:33-43, supervisor_agent.py:26-34: self.agent = create_agent(...)
ctor_create_agent(c) ==
    /\ ctor_pc[c] = "create_agent"
    /\ ctor_agent' = [ctor_agent EXCEPT ![c] = NewAgentId]
    /\ create_agent_calls' = [create_agent_calls EXCEPT ![ctor_key[c]] = @ + 1]
    /\ ctor_pc' = [ctor_pc EXCEPT ![c] = "store"]
    /\ UNCHANGED <<ctor_key, ctor_agent_id, AGENTS>>
    /\ CacheFrame

\* planner_agent.py:44, supervisor_agent.py:35: self._AGENTS[key] = self.agent.id
ctor_store(c) ==
    /\ ctor_pc[c] = "store"
    /\ AGENTS' = [AGENTS EXCEPT ![ctor_key[c]] = ctor_agent[c]]
    /\ ctor_pc' = [ctor_pc EXCEPT ![c] = "done"]
    /\ UNCHANGED <<ctor_key, ctor_agent_id, ctor_agent, create_agent_calls>>
    /\ CacheFrame

ctor_get_step == \E c \in Ctors : ctor_get(c)

ctor_get_agent_step == \E c \in Ctors : ctor_get_agent(c)

ctor_create_agent_step == \E c \in Ctors : ctor_create_agent(c)

ctor_store_step == \E c \in Ctors : ctor_store(c)

CacheNext ==
    \/ ctor_get_step
    \/ ctor_get_agent_step
    \/ ctor_create_agent_step
    \/ ctor_store_step

----------------------------------------------------------------------------
(* The AI router (src/lib/ai/router): select_deployment                       *)

\* models.py:14-17
ClassificationTypes == {"math", "coding", "creative", "chat", "visual", "audio", "multimodal"}

ComplexityLevels == {"high", "low", "moderate"}

LanguageCodes == {"fr", "en", "other"}

ModalityTypes == {"text", "visual", "audio", "multimodal"}

\* None, for an optional argument that is not given
None == "None"

\* models.py:146: client_tier is any string; "standard" and "vip" are the tiers
ClientTiers == {"standard", "vip", "other"}

ClassificationResult(type, complexity, language) ==
    [type |-> type, complexity |-> complexity, language |-> language]

\* routing.py:19-41
apply_hints(classification, type_hint, language_hint) ==
    ClassificationResult(
        IF type_hint # None THEN type_hint ELSE classification.type,
        classification.complexity,
        IF language_hint # None THEN language_hint ELSE classification.language)

\* Mutant of select_deployment: the French rule is tried before the chat rule
select_deployment_FrenchBeforeChat(classification, client_tier, type_hint, language_hint, modality) ==
    LET effective == apply_hints(classification, type_hint, language_hint)
    IN IF modality = "audio" \/ effective.type = "audio"
       THEN "Azure-Speech-Batch"
       ELSE IF modality \in {"visual", "multimodal"}
               \/ effective.type \in {"visual", "multimodal"}
       THEN "Phi-4-Multimodal"
       ELSE IF effective.type \in {"math", "coding"} /\ effective.complexity = "high"
       THEN "DeepSeek-R1"
       ELSE IF effective.type = "creative" \/ client_tier = "vip"
       THEN "Llama-3.3-70B"
       ELSE IF effective.language = "fr"
       THEN "Mistral-Large-2411"
       ELSE "Llama-3.3-70B"

\* routing.py:44-105: the model name returned (the deployment name is the
\* configuration field of that model, see deployment_of)
select_deployment(classification, client_tier, type_hint, language_hint, modality) ==
    LET effective == apply_hints(classification, type_hint, language_hint)
    IN IF modality = "audio" \/ effective.type = "audio"
       THEN "Azure-Speech-Batch"
       ELSE IF modality \in {"visual", "multimodal"}
               \/ effective.type \in {"visual", "multimodal"}
       THEN "Phi-4-Multimodal"
       ELSE IF effective.type \in {"math", "coding"} /\ effective.complexity = "high"
       THEN "DeepSeek-R1"
       ELSE IF effective.type = "creative" \/ client_tier = "vip"
       THEN "Llama-3.3-70B"
       ELSE IF effective.type = "chat"
       THEN "Llama-3.3-70B"
       ELSE IF effective.language = "fr"
       THEN "Mistral-Large-2411"
       ELSE "Llama-3.3-70B"

\* routing.py:82, 86, 90, 94, 98, 102, 105: the configuration field returned
\* beside each model name
deployment_of(model) ==
    CASE model = "Azure-Speech-Batch" -> "deploy_azure_speech"
      [] model = "Phi-4-Multimodal" -> "deploy_phi4_multimodal"
      [] model = "DeepSeek-R1" -> "deploy_deepseek"
      [] model = "Mistral-Large-2411" -> "deploy_mistral"
      [] OTHER -> "deploy_llama"

NoSelection == [model |-> "none", deployment |-> "none"]

SelectInputs ==
    [classification : {ClassificationResult(t, c, l) :
                          t \in ClassificationTypes, c \in ComplexityLevels,
                          l \in LanguageCodes},
     client_tier : ClientTiers,
     type_hint : ClassificationTypes \cup {None},
     language_hint : LanguageCodes \cup {None},
     modality : ModalityTypes \cup {None}]

SelectOff ==
    /\ sel_pc = "off"
    /\ sel_in = [classification |-> ClassificationResult("chat", "low", "other"),
                 client_tier |-> "standard", type_hint |-> None,
                 language_hint |-> None, modality |-> None]
    /\ sel_out = NoSelection

InitSelect ==
    /\ sel_pc = "call"
    /\ sel_in \in SelectInputs
    /\ sel_out = NoSelection

\* routing.py:44-105: one call of select_deployment
select_deployment_call ==
    /\ sel_pc = "call"
    /\ LET model == select_deployment(sel_in.classification, sel_in.client_tier,
                                      sel_in.type_hint, sel_in.language_hint,
                                      sel_in.modality)
       IN sel_out' = [model |-> model, deployment |-> deployment_of(model)]
    /\ sel_pc' = "done"
    /\ UNCHANGED sel_in
    /\ SelectFrame

SelectNext == select_deployment_call

----------------------------------------------------------------------------
(* The AI router: POST /route (main.py:58-97, 153-271)                        *)

\* Values of the X-API-Key header and of AI_ROUTER_API_KEY: the empty string, two
\* ASCII keys and a key with a character outside ASCII; None when not given
AsciiKeys == {"key-1", "key-2"}

NonAsciiKeys == {"key-non-ascii"}

KeyValues == {""} \cup AsciiKeys \cup NonAsciiKeys

\* Prompts: empty, blank, and one with text
Prompts == {"", " ", "hi"}

\* models.py:131-158: the body of a request (a body FastAPI has validated)
RouteRequests ==
    [api_key : KeyValues \cup {None},
     prompt : Prompts,
     client_tier : {"standard", "vip"},
     type_hint : {None, "coding", "visual"},
     language_hint : {None, "fr"}]

\* main.py:100-126 lifespan: before startup all three globals are None; startup
\* sets _config, reads AI_ROUTER_API_KEY, and makes the client if it has credentials
RouterGlobals ==
    {[config |-> FALSE, client |-> FALSE, api_key |-> None]}
    \cup [config : {TRUE}, client : BOOLEAN, api_key : KeyValues \cup {None}]

\* classifier.py:88-121 with models.py:46-77: classify_prompt never raises; what it
\* returns has gone through from_json or is the default
Classifications ==
    {ClassificationResult(t, c, l) :
        t \in {"math", "coding", "creative", "chat"}, c \in {"high", "low"},
        l \in LanguageCodes}

\* Python truth of an optional string: None and "" are false
Truthy(s) == s # None /\ s # ""

\* secrets.compare_digest on two str: TypeError unless both are ASCII
compare_digest_raises(a, b) == a \in NonAsciiKeys \/ b \in NonAsciiKeys

\* main.py:58-97: 0 when the dependency returns, else the status of the response:
\* 401 for the two HTTPExceptions, 500 for the TypeError of compare_digest, which
\* nothing catches
verify_api_key(api_key, configured) ==
    IF ~Truthy(configured) THEN 0
    ELSE IF ~Truthy(api_key) THEN 401
    ELSE IF compare_digest_raises(api_key, configured) THEN 500
    ELSE IF api_key # configured THEN 401
    ELSE 0

NoRouteCalls == [validate |-> 0, classify |-> 0, select |-> 0, model |-> 0]

NoResult == [model |-> "none", deployment |-> "none"]

RouteOff ==
    /\ rt_pc = "off"
    /\ rt_globals = [config |-> FALSE, client |-> FALSE, api_key |-> None]
    /\ rt_req = [api_key |-> None, prompt |-> "", client_tier |-> "standard",
                 type_hint |-> None, language_hint |-> None]
    /\ rt_class = ClassificationResult("none", "none", "none")
    /\ rt_selected = NoResult
    /\ rt_calls = NoRouteCalls
    /\ rt_status = 0

InitRoute ==
    /\ rt_pc = "verify_api_key"
    /\ rt_globals \in RouterGlobals
    /\ rt_req \in RouteRequests
    /\ rt_class = ClassificationResult("none", "none", "none")
    /\ rt_selected = NoResult
    /\ rt_calls = NoRouteCalls
    /\ rt_status = 0

\* main.py:156 with 58-97: the dependency runs before the body of route_prompt
route_verify_api_key ==
    /\ rt_pc = "verify_api_key"
    /\ LET st == verify_api_key(rt_req.api_key, rt_globals.api_key)
       IN /\ rt_status' = st
          /\ rt_pc' = IF st = 0 THEN "validate" ELSE "responded"
    /\ UNCHANGED <<rt_globals, rt_req, rt_class, rt_selected, rt_calls>>
    /\ RouteFrame

\* not request.prompt or not request.prompt.strip()
prompt_is_empty(prompt) == prompt \in {"", " "}

validate_request_ConfigFirst(prompt, config, client) ==
    IF ~config \/ ~client THEN 500
    ELSE IF prompt_is_empty(prompt) THEN 400
    ELSE 0

\* main.py:184-203: the prompt, then the configuration, then the client; the
\* status of the HTTPException raised, 0 if none is
validate_request(prompt, config, client) ==
    IF prompt_is_empty(prompt) THEN 400
    ELSE IF ~config \/ ~client THEN 500
    ELSE 0

route_validate ==
    /\ rt_pc = "validate"
    /\ rt_calls' = [rt_calls EXCEPT !.validate = @ + 1]
    /\ LET st == validate_request(rt_req.prompt, rt_globals.config, rt_globals.client)
       IN /\ rt_status' = st
          /\ rt_pc' = IF st = 0 THEN "classify" ELSE "responded"
    /\ UNCHANGED <<rt_globals, rt_req, rt_class, rt_selected>>
    /\ RouteFrame

\* main.py:208 with 274-283
route_classify ==
    /\ rt_pc = "classify"
    /\ rt_class' \in Classifications
    /\ rt_calls' = [rt_calls EXCEPT !.classify = @ + 1]
    /\ rt_pc' = "select"
    /\ UNCHANGED <<rt_globals, rt_req, rt_selected, rt_status>>
    /\ RouteFrame

\* main.py:212-218: select_deployment is called without a modality
route_select ==
    /\ rt_pc = "select"
    /\ LET model == select_deployment(rt_class, rt_req.client_tier, rt_req.type_hint,
                                      rt_req.language_hint, None)
       IN rt_selected' = [model |-> model, deployment |-> deployment_of(model)]
    /\ rt_calls' = [rt_calls EXCEPT !.select = @ + 1]
    /\ rt_pc' = "call_deployment"
    /\ UNCHANGED <<rt_globals, rt_req, rt_class, rt_status>>
    /\ RouteFrame

\* main.py:222-262 and 264-271: the model answers (200), or the call raises and the
\* handler answers 500
route_call_deployment ==
    /\ rt_pc = "call_deployment"
    /\ rt_status' \in {200, 500}
    /\ rt_calls' = [rt_calls EXCEPT !.model = @ + 1]
    /\ rt_pc' = "responded"
    /\ UNCHANGED <<rt_globals, rt_req, rt_class, rt_selected>>
    /\ RouteFrame

RouteNext ==
    \/ route_verify_api_key
    \/ route_validate
    \/ route_classify
    \/ route_select
    \/ route_call_deployment

----------------------------------------------------------------------------
(* src/lib/ai/router: ClassificationResult.from_json / to_json and          *)
(* classify_prompt                                                          *)

\* Values a key of the parsed JSON may hold besides the declared literals: a
\* string that is none of them, a number, null, a list, an object; or no key
Absent == "<absent>"

OtherJsonValues == {"zzz", "<int>", "<null>", "<list>", "<object>"}

\* A list or a dict is not hashable: `value in {...}` raises TypeError for it
Unhashable(value) == value \in {"<list>", "<object>"}

valid_types == {"math", "coding", "creative", "chat"}

valid_complexities == {"high", "low"}

valid_languages == {"fr", "en", "other"}

JsonDicts ==
    [type : ClassificationTypes \cup OtherJsonValues \cup {Absent},
     complexity : ComplexityLevels \cup OtherJsonValues \cup {Absent},
     language : LanguageCodes \cup OtherJsonValues \cup {Absent}]

\* models.py:31-43  the values the fields of the dataclass are declared with
ClassificationResults ==
    [type : ClassificationTypes, complexity : ComplexityLevels,
     language : LanguageCodes]

get_default_classification == ClassificationResult("chat", "low", "other")

Raised == [raised |-> TRUE, result |-> None]

Returned(result) == [raised |-> FALSE, result |-> result]

\* data.get(key, default)
dict_get(value, default) == IF value = Absent THEN default ELSE value

\* raw if raw in valid else default
coerce(raw, valid, default) == IF raw \in valid THEN raw ELSE default

\* models.py:45-77
from_json(data) ==
    LET raw_type == dict_get(data.type, "chat")
        raw_complexity == dict_get(data.complexity, "low")
        raw_language == dict_get(data.language, "other")
    IN  IF Unhashable(raw_type) \/ Unhashable(raw_complexity)
           \/ Unhashable(raw_language)
        THEN Raised
        ELSE Returned(ClassificationResult(
                 coerce(raw_type, valid_types, "chat"),
                 coerce(raw_complexity, valid_complexities, "low"),
                 coerce(raw_language, valid_languages, "other")))

\* models.py:79-89
to_json(r) == [type |-> r.type, complexity |-> r.complexity, language |-> r.language]

\* What call_deployment gives the classifier: an exception, or a text in which
\* extract_json_from_text finds no JSON, a JSON value that is no object, or an
\* object
ClassifierResponses ==
    {[kind |-> k, data |-> None] : k \in {"raises", "no_json", "null", "non_object"}}
    \cup {[kind |-> "object", data |-> d] : d \in JsonDicts}

\* classifier.py:38-72  None, or whatever json.loads returned
extract_json_from_text(resp) ==
    [is_none |-> resp.kind \in {"no_json", "null"},
     is_dict |-> resp.kind = "object",
     data |-> resp.data]

\* classifier.py:88-121  every exception of the try block gives the default:
\* the one of the call, the AttributeError of from_json on a value that is no
\* dict, the TypeError of from_json
classify_prompt(resp) ==
    IF resp.kind = "raises"
    THEN Returned(get_default_classification)
    ELSE LET parsed == extract_json_from_text(resp)
         IN  IF parsed.is_none THEN Returned(get_default_classification)
             ELSE IF ~parsed.is_dict THEN Returned(get_default_classification)
             ELSE IF from_json(parsed.data).raised
                  THEN Returned(get_default_classification)
                  ELSE from_json(parsed.data)

ClassifyOff == cl_pc = "off" /\ cl_in = None /\ cl_out = None

InitClassify ==
    /\ cl_out = None
    /\ \/ cl_pc = "from_json" /\ cl_in \in JsonDicts
       \/ cl_pc = "classify_prompt" /\ cl_in \in ClassifierResponses
       \/ cl_pc = "round_trip" /\ cl_in \in ClassificationResults

from_json_call ==
    /\ cl_pc = "from_json"
    /\ cl_out' = from_json(cl_in)
    /\ cl_pc' = "from_json_done"
    /\ UNCHANGED cl_in
    /\ ClassifyFrame

classify_prompt_call ==
    /\ cl_pc = "classify_prompt"
    /\ cl_out' = classify_prompt(cl_in)
    /\ cl_pc' = "classify_prompt_done"
    /\ UNCHANGED cl_in
    /\ ClassifyFrame

\* test_models.py:67-88  serialize, then deserialize
round_trip_call ==
    /\ cl_pc = "round_trip"
    /\ cl_out' = from_json(to_json(cl_in))
    /\ cl_pc' = "round_trip_done"
    /\ UNCHANGED cl_in
    /\ ClassifyFrame

ClassifyNext ==
    \/ from_json_call
    \/ classify_prompt_call
    \/ round_trip_call

----------------------------------------------------------------------------
(* autogen-service: the sessions of the store under /draft and               *)
(* /sessions/{id}/human_decision requests                                    *)

SessionIds == 1..MaxSessions

Decisions == {"approve", "reject", "edit", "other"}

\* The risks a /draft run may end with: below and above the threshold
DraftRisks ==
    {[label |-> "yellow", score |-> 60, high |-> 0],
     [label |-> "red", score |-> 90, high |-> 0]}

\* store/dynamodb_store.py:57-58, store/cosmos_store.py:62-67: the item, or
\* nothing when there is none
get_session(store, session_id) == store[session_id]

\* store/dynamodb_store.py:34-55, store/cosmos_store.py:43-60: status and step
\* are set, whatever the item held before
update_status(store, session_id, status, step) ==
    [store EXCEPT ![session_id] = [status |-> status, step |-> step]]

NoDecision == [session_id |-> 0, decision |-> "none", code |-> 0, before |-> "none", wrote |-> FALSE]

SessOff ==
    /\ hd_store = <<>>
    /\ hd_draft_pc = <<>>
    /\ hd_events = 0
    /\ hd_n = 0
    /\ hd_last = NoDecision

InitSess ==
    /\ hd_store = [s \in SessionIds |-> NoSession]
    /\ hd_draft_pc = [s \in SessionIds |-> "idle"]
    /\ hd_events = 0
    /\ hd_n = 0
    /\ hd_last = NoDecision

\* main.py:36-39 with dynamodb_store.py:19-32: /draft makes a session id of its
\* own and stores the session as running
sess_draft_start(s) ==
    /\ hd_draft_pc[s] = "idle"
    /\ hd_store' = update_status(hd_store, s, "running", "INIT")
    /\ hd_draft_pc' = [hd_draft_pc EXCEPT ![s] = "chat"]
    /\ UNCHANGED <<hd_events, hd_n, hd_last>>
    /\ SessFrame

\* main.py:63-89: the same /draft run reaches its gate and updates its session,
\* unless the store fails
sess_draft_finish(s) ==
    /\ hd_draft_pc[s] = "chat"
    /\ hd_draft_pc' = [hd_draft_pc EXCEPT ![s] = "done"]
    /\ \E risk \in DraftRisks, updated \in BOOLEAN :
        hd_store' = IF updated
                    THEN update_status(hd_store, s, SessionAfterGate(risk).status,
                                       SessionAfterGate(risk).step)
                    ELSE hd_store
    /\ UNCHANGED <<hd_events, hd_n, hd_last>>
    /\ SessFrame

decision_status_EditResumes(decision) ==
    IF decision \in {"approve", "edit"} THEN [status |-> "sending", step |-> "SENDING"]
    ELSE IF decision = "reject" THEN [status |-> "closed", step |-> "CLOSED"]
    ELSE NoSession

\* main.py:103-104, 117-118: the status and step human_decision writes for a
\* decision, NoSession for a decision it does not know
decision_status(decision) ==
    IF decision = "approve" THEN [status |-> "sending", step |-> "SENDING"]
    ELSE IF decision \in {"reject", "edit"} THEN [status |-> "closed", step |-> "CLOSED"]
    ELSE NoSession

\* main.py:97-131 with services/events.py:8-20: 404 for a session the store does
\* not hold, 400 for a decision that is none of the three; otherwise the status is
\* written, then the event is posted, and either may raise (500)
human_decision(session_id, decision) ==
    /\ hd_n < MaxDecisions
    /\ hd_n' = hd_n + 1
    /\ LET sess == get_session(hd_store, session_id)
           target == decision_status(decision)
           Answer(code, wrote) ==
               hd_last' = [session_id |-> session_id, decision |-> decision,
                           code |-> code, before |-> sess.status, wrote |-> wrote]
       IN IF sess = NoSession
          THEN Answer(404, FALSE) /\ UNCHANGED <<hd_store, hd_events>>
          ELSE IF target = NoSession
          THEN Answer(400, FALSE) /\ UNCHANGED <<hd_store, hd_events>>
          ELSE \E updated \in BOOLEAN, posted \in BOOLEAN :
                IF ~updated
                THEN Answer(500, FALSE) /\ UNCHANGED <<hd_store, hd_events>>
                ELSE /\ hd_store' = update_status(hd_store, session_id,
                                                  target.status, target.step)
                     /\ IF posted
                        THEN Answer(200, TRUE) /\ hd_events' = hd_events + 1
                        ELSE Answer(500, TRUE) /\ UNCHANGED hd_events
    /\ UNCHANGED hd_draft_pc
    /\ SessFrame

sess_draft_start_step == \E s \in SessionIds : sess_draft_start(s)

sess_draft_finish_step == \E s \in SessionIds : sess_draft_finish(s)

human_decision_step ==
    \E s \in SessionIds, decision \in Decisions : human_decision(s, decision)

SessNext ==
    \/ sess_draft_start_step
    \/ sess_draft_finish_step
    \/ human_decision_step

----------------------------------------------------------------------------
(* cin/executor_agent.py: the messages CINExecutor.execute hands to the      *)
(* Service Bus sender; strings are sequences of characters                   *)

ActionNames == {"dm", "offer"}

\* The plans execute is given: up to MaxActions actions
Plans == UNION {[1..n -> ActionNames] : n \in 0..MaxActions}

\* context.get("trace_id"): None, or a string
NoTrace == [given |-> FALSE, id |-> <<>>]

TraceIds ==
    {NoTrace, [given |-> TRUE, id |-> <<"t">>], [given |-> TRUE, id |-> <<"t", "-", "1">>]}

DigitChars == <<"0", "1", "2", "3", "4", "5", "6", "7", "8", "9">>

RECURSIVE str_of_int(_)
\* format of a non-negative int in an f-string: its decimal digits
str_of_int(n) ==
    IF n < 10 THEN <<DigitChars[n + 1]>>
    ELSE Append(str_of_int(n \div 10), DigitChars[(n % 10) + 1])

message_id_WithoutPosition(trace_id, position) ==
    IF trace_id.given
    THEN [set |-> TRUE, text |-> trace_id.id \o <<"-">>]
    ELSE [set |-> FALSE, text |-> <<>>]

\* cin/executor_agent.py:54-55: m.message_id = f"{trace_id}-{i}" when a trace id
\* is given; otherwise the message id is left unset
message_id(trace_id, position) ==
    IF trace_id.given
    THEN [set |-> TRUE, text |-> trace_id.id \o <<"-">> \o str_of_int(position)]
    ELSE [set |-> FALSE, text |-> <<>>]

\* cin/executor_agent.py:44-68: for i, action in enumerate(actions): one message
\* per action, in the order of the plan, i counted from 0
build_msgs(actions, trace_id) ==
    [k \in 1..Len(actions) |->
        [seq |-> k - 1,
         action |-> actions[k],
         message_id |-> message_id(trace_id, k - 1)]]

NoCounts == [acknowledged |-> 0, published |-> 0]

BatchOff ==
    /\ ex_plan = <<>>
    /\ ex_sb = FALSE
    /\ ex_n = -1
    /\ ex_sent = <<>>
    /\ ex_ret = NoCounts

InitBatch ==
    /\ ex_plan \in Plans
    /\ ex_sb \in BOOLEAN
    /\ ex_n = 0
    /\ ex_sent = <<>>
    /\ ex_ret = NoCounts

\* cin/executor_agent.py:30-74: one call of execute on the plan; the messages are
\* handed to send_messages in one list (line 70) when there is a client and the
\* plan is not empty
executor_execute ==
    /\ ex_n >= 0 /\ ex_n < MaxExecutes
    /\ ex_n' = ex_n + 1
    /\ \E trace_id \in TraceIds, delivered \in BOOLEAN :
        /\ ex_ret' = CINExecutor_execute(Len(ex_plan), ex_sb, delivered)
        /\ ex_sent' = IF CINExecutor_sends(Len(ex_plan), ex_sb) = 1
                      THEN Append(ex_sent, [trace_id |-> trace_id,
                                            delivered |-> delivered,
                                            msgs |-> build_msgs(ex_plan, trace_id)])
                      ELSE ex_sent
    /\ UNCHANGED <<ex_plan, ex_sb>>
    /\ BatchFrame

BatchNext ==
    \/ executor_execute

----------------------------------------------------------------------------
(* automation/multi_platform_traffic.py: ContentScheduler. Times are hours   *)
(* counted from the start; an entry carries the identity of its tuple        *)

Platforms == {"instagram", "tiktok"}

Times == 0..MaxTime

\* multi_platform_traffic.py:587-589: the key of the sort is item[0]
sorted_by_time(schedule) ==
    \A j, k \in 1..Len(schedule) : j < k => schedule[j].time <= schedule[k].time

\* An item put after the items of a sorted list that are not later than it
insert_by_time(schedule, item) ==
    LET before == SelectSeq(schedule, LAMBDA e : e.time <= item.time)
        after == SelectSeq(schedule, LAMBDA e : e.time > item.time)
    IN before \o <<item>> \o after

RECURSIVE list_sort(_)
\* multi_platform_traffic.py:587  list.sort(key=...): ascending and stable
list_sort(schedule) ==
    IF schedule = <<>> THEN <<>>
    ELSE insert_by_time(list_sort(SubSeq(schedule, 1, Len(schedule) - 1)),
                        schedule[Len(schedule)])

\* Equality of two (scheduled_time, content, kwargs) tuples: by value
tuple_eq(a, b) == a.time = b.time /\ a.content = b.content

\* multi_platform_traffic.py:613  list.remove(item): the first element equal to
\* item is taken out (the item is always there: it was read from the list)
list_remove(schedule, item) ==
    IF \E k \in 1..Len(schedule) : tuple_eq(schedule[k], item)
    THEN LET first == CHOOSE k \in 1..Len(schedule) :
                         /\ tuple_eq(schedule[k], item)
                         /\ \A j \in 1..(k - 1) : ~tuple_eq(schedule[j], item)
         IN SubSeq(schedule, 1, first - 1) \o SubSeq(schedule, first + 1, Len(schedule))
    ELSE schedule

RECURSIVE remove_each(_, _)
\* multi_platform_traffic.py:612-613  for item in executed: self.schedule.remove(item)
remove_each(schedule, executed) ==
    IF executed = <<>> THEN schedule
    ELSE remove_each(list_remove(schedule, executed[1]),
                     SubSeq(executed, 2, Len(executed)))

is_due_StrictlyBefore(scheduled_time, now) == scheduled_time < now

\* multi_platform_traffic.py:608  if scheduled_time <= now
is_due(scheduled_time, now) == scheduled_time <= now

SchedOff ==
    /\ sch_schedule = <<>>
    /\ sch_now = -1
    /\ sch_adds = 0
    /\ sch_runs = 0
    /\ sch_published = <<>>
    /\ sch_ret = 0

\* multi_platform_traffic.py:576-578
InitSched ==
    /\ sch_schedule = <<>>
    /\ sch_now = 0
    /\ sch_adds = 0
    /\ sch_runs = 0
    /\ sch_published = <<>>
    /\ sch_ret = 0

\* datetime.now() moves on between the calls
sched_tick ==
    /\ sch_now >= 0 /\ sch_now < MaxTime
    /\ sch_now' = sch_now + 1
    /\ UNCHANGED <<sch_schedule, sch_adds, sch_runs, sch_published, sch_ret>>
    /\ SchedFrame

\* multi_platform_traffic.py:580-592 with 594-602: the entry is appended and the
\* list sorted; without a scheduled_time the entry gets the next optimal hour,
\* one that is after now (today's or tomorrow's)
add_to_schedule(content, scheduled_time) ==
    /\ sch_now >= 0 /\ sch_adds < MaxScheduled
    /\ sch_adds' = sch_adds + 1
    /\ \E next_optimal_time \in (sch_now + 1)..(MaxTime + 1) :
        LET at == IF scheduled_time = -1 THEN next_optimal_time ELSE scheduled_time
            item == [time |-> at, content |-> content, id |-> sch_adds + 1]
        IN sch_schedule' = list_sort(Append(sch_schedule, item))
    /\ UNCHANGED <<sch_now, sch_runs, sch_published, sch_ret>>
    /\ SchedFrame

\* multi_platform_traffic.py:604-614: every entry that is due is published, in
\* the order of the list, then taken out of the list; the count is returned
execute_pending ==
    /\ sch_now >= 0 /\ sch_runs < MaxRuns
    /\ sch_runs' = sch_runs + 1
    /\ LET now == sch_now
           executed == SelectSeq(sch_schedule, LAMBDA e : is_due(e.time, now))
       IN /\ sch_published' = sch_published \o
                 [k \in 1..Len(executed) |-> [run |-> sch_runs + 1, id |-> executed[k].id]]
          /\ sch_schedule' = remove_each(sch_schedule, executed)
          /\ sch_ret' = Len(executed)
    /\ UNCHANGED <<sch_now, sch_adds>>
    /\ SchedFrame

add_to_schedule_step ==
    \E content \in Platforms, scheduled_time \in Times \cup {-1} :
        add_to_schedule(content, scheduled_time)

SchedNext ==
    \/ sched_tick
    \/ add_to_schedule_step
    \/ execute_pending

LateOff == ClassifyOff /\ SessOff /\ BatchOff /\ SchedOff

----------------------------------------------------------------------------
(* Specifications *)

Init == InitAgents /\ RestOff /\ CinOff /\ DraftOff /\ RiskOff /\ GateOff
    /\ CacheOff /\ SelectOff /\ RouteOff /\ LateOff

Next == AgentsNext

Spec == Init /\ [][Next]_vars

\* The controller is a sequential program: it always takes its next step
FairSpec == Spec /\ WF_vars(Next)

InitSpecRest == AgentsOff /\ InitRest /\ CinOff /\ DraftOff /\ RiskOff /\ GateOff
    /\ CacheOff /\ SelectOff /\ RouteOff /\ LateOff

SpecRest == InitSpecRest /\ [][RestNext]_vars

InitSpecCIN == AgentsOff /\ RestOff /\ InitCin /\ DraftOff /\ RiskOff /\ GateOff
    /\ CacheOff /\ SelectOff /\ RouteOff /\ LateOff

SpecCIN == InitSpecCIN /\ [][CinNext]_vars

InitSpecDraft == AgentsOff /\ RestOff /\ CinOff /\ InitDraft /\ RiskOff /\ GateOff
    /\ CacheOff /\ SelectOff /\ RouteOff /\ LateOff

SpecDraft == InitSpecDraft /\ [][DraftNext]_vars

InitSpecRisk == AgentsOff /\ RestOff /\ CinOff /\ DraftOff /\ InitRisk /\ GateOff
    /\ CacheOff /\ SelectOff /\ RouteOff /\ LateOff

SpecRisk == InitSpecRisk /\ [][RiskNext]_vars

InitSpecGate == AgentsOff /\ RestOff /\ CinOff /\ DraftOff /\ RiskOff /\ InitGate
    /\ CacheOff /\ SelectOff /\ RouteOff /\ LateOff

SpecGate == InitSpecGate /\ [][GateNext]_vars

OthersOff == AgentsOff /\ RestOff /\ CinOff /\ DraftOff /\ RiskOff /\ GateOff

InitSpecCache == OthersOff /\ InitCache /\ SelectOff /\ RouteOff /\ LateOff

\* The constructors run concurrently: any interleaving of their steps
SpecCache == InitSpecCache /\ [][CacheNext]_vars

InitSpecSelect == OthersOff /\ CacheOff /\ InitSelect /\ RouteOff /\ LateOff

SpecSelect == InitSpecSelect /\ [][SelectNext]_vars

InitSpecRoute == OthersOff /\ CacheOff /\ SelectOff /\ InitRoute /\ LateOff

SpecRoute == InitSpecRoute /\ [][RouteNext]_vars

\* from_json, classify_prompt or the to_json/from_json round trip applied once
InitSpecClassify == OthersOff /\ CacheOff /\ SelectOff /\ RouteOff /\ InitClassify /\ SessOff /\ BatchOff /\ SchedOff

SpecClassify == InitSpecClassify /\ [][ClassifyNext]_vars

\* /draft and human_decision requests on the sessions of one store, in any order
InitSpecSessions == OthersOff /\ CacheOff /\ SelectOff /\ RouteOff /\ ClassifyOff /\ InitSess /\ BatchOff /\ SchedOff

SpecSessions == InitSpecSessions /\ [][SessNext]_vars

\* CINExecutor.execute called on one plan, once or again
InitSpecExecute == OthersOff /\ CacheOff /\ SelectOff /\ RouteOff /\ ClassifyOff /\ SessOff /\ InitBatch /\ SchedOff

SpecExecute == InitSpecExecute /\ [][BatchNext]_vars

\* add_to_schedule and execute_pending calls on one ContentScheduler as time passes
InitSpecSchedule == OthersOff /\ CacheOff /\ SelectOff /\ RouteOff /\ ClassifyOff /\ SessOff /\ BatchOff /\ InitSched

SpecSchedule == InitSpecSchedule /\ [][SchedNext]_vars

----------------------------------------------------------------------------
(* Claims about the run loops (Spec, FairSpec) *)

InRunLoop == pc \in {"w_loop", "s_loop"}

AwaitingSubmit == pc \in {"w_submit", "s_submit"}

\* C1: whenever a requires_action batch of N tool calls is observed, the
\* submit_tool_outputs call that follows carries exactly N outputs, one per tool
\* call id of the batch, in particular when a call's fields cannot be read.
\* (Refuted: a call whose fields cannot be read is skipped, the batch goes out short.)
C1_SubmitAnswersWholeBatch ==
    AwaitingSubmit =>
        /\ Len(submitted) = Len(run.tool_calls)
        /\ \A k \in 1..Len(run.tool_calls) : submitted[k].tool_call_id = k

\* C2: each observation of requires_action is followed by the submit_tool_outputs
\* call for that run before any other step of the controller: no poll and no exit
\* from the loop comes in between.
\* (Refuted: a tool handler that raises leaves the loop with nothing submitted.)
C2_SubmitFollowsRequiresAction ==
    [][(InRunLoop /\ run.status = "requires_action")
        => (AwaitingSubmit' /\ last_call' = "submit_tool_outputs")]_vars

HasUnknownTool(tcs) ==
    \E k \in 1..Len(tcs) : tcs[k].readable /\ tcs[k].name = "unknown_tool"

\* C3: for every tool call naming a tool the stage does not implement, the batch is
\* still submitted and the output submitted for that call is {}.
\* (Refuted: another call of the same batch whose handler raises stops the submission.)
C3_UnknownToolAnsweredEmpty ==
    [][(InRunLoop /\ run.status = "requires_action" /\ HasUnknownTool(run.tool_calls))
        => /\ AwaitingSubmit'
           /\ \A k \in 1..Len(run.tool_calls) :
                (run.tool_calls[k].readable /\ run.tool_calls[k].name = "unknown_tool")
                => \E j \in 1..Len(submitted') :
                      /\ submitted'[j].tool_call_id = k
                      /\ submitted'[j].output.result = "{}"]_vars

InWriterRun == pc \in {"w_loop", "w_submit"}

\* C4: every run controller polls a bounded number of times: a generate_message
\* call whose run never reaches a final status still comes to an end.
\* (Refuted under FairSpec: the writer's while loop has no poll budget.)
C4_WriterRunEnds == InWriterRun ~> ~InWriterRun

\* C5: when a run ends failed, cancelled or expired, the stage reports a failure
\* to its caller instead of returning a payload built from the latest message.
\* (Refuted: the stage parses whatever message is latest and returns normally.)
C5_FailedRunIsReported ==
    [][(InRunLoop /\ run.status \in FailedStatuses) => pc' = "raised"]_vars

\* C6: no pipeline entry point returns status ok in an execution where a stage's
\* run did not reach completed.
\* (Refuted under SpecRest: the status returned is ok whatever status ended the
\* poll loop; the other two entry points return ok after a failed run as well.)
C6_OkOnlyIfAllRunsCompleted ==
    /\ (rest_pc = "returned" /\ rest_response = "ok") => rest_st = "completed"
    /\ (pc = "returned" /\ response.status = "ok") => ~incomplete
    /\ (cin_pc = "returned" /\ cin_result.status = "ok") => ~cin_incomplete

----------------------------------------------------------------------------
(* Claims about the two-gate pipeline (SpecCIN) *)

\* The gate of the specification: escalate on label red or on a score at or above
\* REVIEW_THRESHOLD
Escalates(verdict) == verdict.label = "red" \/ verdict.score >= REVIEW_THRESHOLD

\* C7: whenever the pre-execution gate escalates on the supervisor's verdict (label
\* red, or score at or above REVIEW_THRESHOLD), process returns needs_review and
\* execute is never invoked.
\* (Refuted: only label red halts; a yellow verdict of score 70 goes on to execute.)
C7_PreGateEscalationHalts ==
    (cin_review # NoVerdict /\ Escalates(cin_review))
        => /\ cin_pc = "returned"
           /\ cin_result.status = "needs_review"
           /\ cin_calls.execute = 0

\* C8: if the pre-execution review returns label red, nothing is sent to the action
\* sink, the executor is not called, the post-execution review is not run, and the
\* result is needs_review with no "executed" entry.
C8_RedPreReviewHalts ==
    cin_review.label = "red"
        => /\ cin_pc = "returned"
           /\ cin_result = [status |-> "needs_review", executed |-> FALSE]
           /\ cin_calls = [execute |-> 0, review |-> 1, send |-> 0, sent |-> 0]
           /\ cin_executed = NoExec
           /\ cin_post = NoVerdict

\* C8 witness: a red pre-execution review of a non-empty plan, with the Service Bus
\* configured, after which process has returned
C8_Witness ==
    /\ cin_pc = "returned"
    /\ cin_review.label = "red"
    /\ cin_sb
    /\ cin_plan.n > 0

\* C9: when execute has run, the final status is ok exactly when the post-execution
\* gate accepts the verdict, and a post-execution verdict the gate escalates (label
\* red, or score at or above REVIEW_THRESHOLD) never yields ok.
\* (Refuted: a green verdict of score 70 yields ok; the score is not consulted.)
C9_PostGateDecidesStatus ==
    (cin_pc = "returned" /\ cin_result.executed)
        => (cin_result.status = "ok"
              <=> (cin_post.label = "green" /\ ~Escalates(cin_post)))

----------------------------------------------------------------------------
(* Claims about the /draft flow (SpecDraft) *)

\* C10: the /draft flow answers needs_review whenever the safeguard's verdict has
\* label red, whatever its score, and whenever the normalized score is at or above
\* REVIEW_THRESHOLD.
\* (Refuted: a red verdict carrying a score is not accepted by record, the yellow
\* fallback scores 60 and the answer is ok; compute_risk itself would pass a red
\* verdict of score 69.)
C10_RedVerdictNeedsReview ==
    d_pc = "done"
        => /\ (d_reply.kind = "json" /\ d_reply.verdict.label = "red"
                => d_response = "needs_review")
           /\ (d_risk.score >= REVIEW_THRESHOLD => d_response = "needs_review")

----------------------------------------------------------------------------
(* Claims about the retry loop of process_message_request (Spec) *)

\* The calls of an operation (or its returns) made so far
CallsOf(op) == Cardinality({k \in 1..Len(calls) : calls[k].op = op})

GenerateCalls == CallsOf("generate")

ValidateCalls == CallsOf("validate")

\* The draft string iteration n (0-based) of the loop can produce: the one its
\* writer run wrote, or the empty draft
DraftsOfIteration(n) == {0, 2 * n + 1}

\* generate and validate strictly alternate, each call made after the previous one
\* has returned: the history repeats generate, its return, validate, its return
StrictlyAlternating ==
    \A k \in 1..Len(calls) :
        calls[k].op = CASE k % 4 = 1 -> "generate"
                        [] k % 4 = 2 -> "generate_returns"
                        [] k % 4 = 3 -> "validate"
                        [] OTHER -> "validate_returns"

\* C11: when the validator never returns label green, process_message_request makes
\* exactly max_iterations generate_message calls and as many validate_message
\* calls, strictly alternating, and returns needs_review with iterations =
\* max_iterations and the draft and verdict of the last iteration.
C11_BudgetExhaustedNeedsReview ==
    /\ StrictlyAlternating
    /\ (pc = "returned" /\ last_validation # "green")
          => response.status = "needs_review"
    /\ (pc = "returned" /\ response.status = "needs_review")
          => /\ GenerateCalls = max_iterations
             /\ ValidateCalls = max_iterations
             /\ response.iterations = max_iterations
             /\ i = max_iterations - 1
             /\ response.draft = last_draft
             /\ response.draft \in DraftsOfIteration(max_iterations - 1)
             /\ response.risk = last_validation
             /\ response.risk # "green"

\* C11 witness: needs_review returned with the draft the third writer run wrote and
\* a yellow verdict
C11_Witness ==
    /\ pc = "returned"
    /\ response.status = "needs_review"
    /\ response.draft = 2 * max_iterations - 1
    /\ response.risk = "yellow"

\* C12: when the validator first returns label green in iteration k (1 <= k <= 3)
\* the loop stops there: k generate_message and k validate_message calls have been
\* made, none follows the accepting verdict, and the result is ok with iterations
\* = k and the draft and verdict of iteration k.
C12_AcceptingVerdictEndsLoop ==
    /\ last_validation = "green" => pc = "returned"
    /\ (pc = "returned" /\ response.status = "ok")
          => /\ response.iterations = i + 1
             /\ response.iterations \in 1..max_iterations
             /\ GenerateCalls = response.iterations
             /\ ValidateCalls = response.iterations
             /\ Len(calls) = 4 * response.iterations
             /\ calls[Len(calls)] = Call("validate_returns", i)
             /\ ~ENABLED Next
             /\ response.draft = calls[Len(calls) - 1].arg
             /\ response.draft \in DraftsOfIteration(i)
             /\ response.risk = "green"
             /\ response.risk = last_validation

\* C12 witness: ok returned in the second iteration with the draft its writer run wrote
C12_Witness ==
    /\ pc = "returned"
    /\ response.status = "ok"
    /\ response.iterations = 2
    /\ response.draft = 3

\* C13: in every iteration i = 0, 1, 2, in this order, generate_message is called
\* first with iteration index i in its context, validate_message is then called on
\* exactly the draft this call of generate_message returned, never on an earlier
\* one, and generate_message of iteration i + 1 is not called before
\* validate_message of iteration i has returned.
C13_ValidateTakesThisIterationsDraft ==
    /\ StrictlyAlternating
    /\ \A k \in 1..Len(calls) :
        LET n == (k - 1) \div 4
        IN /\ n < max_iterations
           /\ calls[k].op = "generate" => calls[k].arg = n
           /\ calls[k].op = "generate_returns" => calls[k].arg \in DraftsOfIteration(n)
           /\ calls[k].op = "validate" => calls[k].arg = calls[k - 1].arg
           /\ calls[k].op = "validate_returns" => calls[k].arg = n
    /\ pc \in {"s_loop", "s_submit"}
          => /\ calls[Len(calls)] = Call("validate", last_draft)
             /\ last_draft \in DraftsOfIteration(i)

\* C13 witness: the third validate_message call is under way on the draft the
\* third writer run wrote, after two rounds that produced drafts of their own
C13_Witness ==
    /\ pc = "s_loop"
    /\ Len(calls) = 11
    /\ calls[3].arg = 1
    /\ calls[7].arg = 3
    /\ calls[11] = Call("validate", 5)

----------------------------------------------------------------------------
(* Claims about termination and stage fallbacks *)

\* C14: every pipeline execution comes to an end after a bounded number of stage
\* and iteration executions, whatever the run service does, also when a run never
\* leaves a status that is not final.
\* (Refuted under FairSpec: the retry loop is bounded by max_iterations, but the
\* writer's run loop inside an iteration polls without a budget.)
C14_PipelineTerminates == <>(pc \in {"returned", "raised"})

\* The response texts the planner keeps: a JSON object whose "plan" is a list of
\* objects that each have a non-empty "action"
IsListOfActions(T) == T.kind = "plan"

\* C15: CINPlannerAgent.plan returns, for a response text T that is not a JSON
\* object whose "plan" is a list of objects each with a non-empty "action", exactly
\* {plan: [{action: send_message, data: {text: T}}]}, and for a response that is
\* such an object that object unchanged.
C15_PlanWrapsFreeText ==
    [][cin_pc = "plan"
        => LET T == cin_assistant'
           IN IF IsListOfActions(T)
              THEN cin_plan' = [n |-> T.n, wrapped |-> FALSE, text |-> T]
              ELSE cin_plan' = [n |-> 1, wrapped |-> TRUE, text |-> T]]_vars

\* C15 witness: the planner's run answered in prose, and the plan is that text
\* wrapped into one send_message action
C15_Witness ==
    /\ cin_pc = "pre_review"
    /\ cin_assistant.kind = "other"
    /\ cin_plan = [n |-> 1, wrapped |-> TRUE, text |-> cin_assistant]

\* C16: for every stage and every model output that fails the stage's schema, the
\* stage does not raise and the payload it returns validates against the schema:
\* a verdict has a label in {green, yellow, red}, a writer reply is an object.
\* (Refuted: generate_message and validate_message return whatever json.loads
\* made of the reply: a verdict without a label, or a value that is no object, on
\* which the orchestrator's .get raises.)
C16_StagePayloadValidates ==
    /\ ~(pc = "raised" /\ last_call = "list_messages")
    /\ (Len(calls) > 0 /\ calls[Len(calls)].op = "validate_returns")
          => last_validation \in Labels

\* C17: when the safety classifier is unavailable or not configured, the verdict
\* produced is the conservative default with label yellow, never green: here for
\* the result of the safeguard's analyze_content_safety tool.
\* (Refuted: the tool's default result is green with score 90.)
C17_UnavailableClassifierGivesYellow ==
    (pc = "s_submit" /\ ~cs_available)
        => \A k \in 1..Len(submitted) :
              run.tool_calls[submitted[k].tool_call_id].name = "analyze_content_safety"
                  => /\ submitted[k].output.label = "yellow"
                     /\ submitted[k].output.label # "green"

\* C18: when a tool handler raises while a tool call is served, the controller puts
\* a default result in its place, still submits the complete batch and goes on
\* polling: no exception leaves generate_message or validate_message.
\* (Refuted: the handlers are called outside any try block; the AttributeError of
\* args.get on arguments that are no object ends the stage and the request.)
C18_HandlerErrorIsRecovered ==
    [][(InRunLoop /\ run.status = "requires_action"
          /\ \E k \in 1..Len(run.tool_calls) :
                /\ run.tool_calls[k].readable
                /\ (WriterHandlerRaises(run.tool_calls[k])
                      \/ SafeguardHandlerRaises(run.tool_calls[k])))
        => /\ pc' # "raised"
           /\ error' = "none"
           /\ AwaitingSubmit'
           /\ \A k \in 1..Len(run.tool_calls) :
                 run.tool_calls[k].readable
                    => \E j \in 1..Len(submitted') : submitted'[j].tool_call_id = k]_vars

----------------------------------------------------------------------------
(* Claims about compute_risk (SpecRisk) *)

\* C19: given a verdict with an explicit integer score s, compute_risk returns
\* score = min(100, max(0, s)): for s in [0,100] the score is s, for every integer
\* s it lies in [0,100]; label and infractions are passed through unchanged.
C19_ExplicitScoreIsClamped ==
    (risk_pc = "done" /\ risk_in.score_kind = "int")
        => LET s == risk_in.score
           IN /\ risk_out.score = Min(100, Max(0, s))
              /\ (s >= 0 /\ s <= 100) => risk_out.score = s
              /\ risk_out.score >= 0 /\ risk_out.score <= 100
              /\ risk_out.label = risk_in.label
              /\ risk_out.high = risk_in.high

\* C19 witness: a score above 100 has been clamped
C19_Witness ==
    /\ risk_pc = "done"
    /\ risk_in.score_kind = "int"
    /\ risk_in.score = 101
    /\ risk_out.score = 100

\* C20: given a verdict with no usable explicit score, compute_risk returns
\* baseline(label) + min(10, 5 * h), with baseline green = 20, yellow = 60, red =
\* 90 and h the number of infractions of severity high: a red verdict gives 90, 95
\* or 100 for h = 0, 1, >= 2, and the result never exceeds 100.
C20_ScoreDerivedFromLabel ==
    (risk_pc = "done" /\ risk_in.score_kind # "int")
        => LET h == risk_in.high
               bonus == IF 5 * h < 10 THEN 5 * h ELSE 10
           IN /\ risk_in.label = "green" => risk_out.score = 20 + bonus
              /\ risk_in.label = "yellow" => risk_out.score = 60 + bonus
              /\ risk_in.label = "red" => risk_out.score = 90 + bonus
              /\ (risk_in.label = "red" /\ h = 0) => risk_out.score = 90
              /\ (risk_in.label = "red" /\ h = 1) => risk_out.score = 95
              /\ (risk_in.label = "red" /\ h >= 2) => risk_out.score = 100
              /\ risk_out.score <= 100

\* C20 witness: a red verdict with a score int() rejects and three infractions of
\* severity high scores 100
C20_Witness ==
    /\ risk_pc = "done"
    /\ risk_in = Verdict("red", "bad", 0, 3)
    /\ risk_out.score = 100

----------------------------------------------------------------------------
(* Claims about the gates *)

\* C21: the gate's escalation decision is monotonically non-decreasing in the
\* normalized score: for one label and threshold, if a verdict of normalized score
\* s1 is escalated then every verdict of normalized score s2 >= s1 is escalated.
C21_EscalationMonotoneInScore ==
    (gate_pc = "done" /\ gate_risk[1].score <= gate_risk[2].score /\ gate_out[1])
        => gate_out[2]

\* C21 witness: two verdicts of one label on either side of the threshold, the
\* lower one let through and the higher one escalated
C21_Witness ==
    /\ gate_pc = "done"
    /\ gate_risk[1].score = REVIEW_THRESHOLD - 1
    /\ gate_risk[2].score = 100
    /\ ~gate_out[1]
    /\ gate_out[2]

\* C22: every verdict score a pipeline exposes to its caller lies in [0,100]: here
\* the risk of the DraftResponse of process_message_request.
\* (Refuted: the safeguard's reply is returned as json.loads decoded it; a score
\* of 101 written by the model is the score of the response's risk.)
C22_ExposedScoreInRange ==
    pc = "returned" => (response.score >= 0 /\ response.score <= 100)

\* C23: execute never raises on a publish failure and always returns two counts:
\* acknowledged is the number of actions of the plan and published is 0 or equal to
\* acknowledged; whatever the counts, the pipeline goes on to the post-execution
\* review and returns its result.
C23_ExecutorReturnsCounts ==
    cin_executed # NoExec =>
        /\ cin_executed.acknowledged = cin_plan.n
        /\ cin_executed.published \in {0, cin_executed.acknowledged}
        /\ cin_pc \in {"post_review", "returned"}
        /\ cin_pc = "post_review" => ENABLED cin_post_review_step
        /\ cin_pc = "returned" =>
              /\ cin_post # NoVerdict
              /\ cin_calls.review = 2
              /\ cin_result.executed

C23_Witness ==
    /\ cin_pc = "returned"
    /\ cin_sb
    /\ cin_executed.acknowledged = MaxActions
    /\ cin_executed.published = 0
    /\ cin_post # NoVerdict

StageOrder == <<"triage", "fan360", "plan", "pre_review", "execute", "post_review">>

StageIndex(stage) == CHOOSE k \in 1..Len(StageOrder) : StageOrder[k] = stage

\* C24: in one execution the sink is written at most once, by execute only, after
\* the pre-execution review and before the post-execution review; a post-execution
\* verdict that gives needs_review causes no further sink call, and the result
\* still carries the executed counts.
C24_SinkWrittenOnceByExecute ==
    /\ [](cin_calls.send <= 1)
    /\ [][cin_calls'.send # cin_calls.send =>
            /\ cin_pc = "execute"
            /\ cin_stages' = Append(cin_stages, "execute")
            /\ cin_review # NoVerdict
            /\ cin_post = NoVerdict
            /\ cin_calls.review = 1]_vars
    /\ []((cin_pc = "returned" /\ cin_post # NoVerdict) =>
            /\ cin_result.executed
            /\ cin_executed # NoExec
            /\ cin_calls.execute = 1
            /\ cin_calls.sent = cin_executed.published)

C24_Witness ==
    /\ cin_pc = "returned"
    /\ cin_result.status = "needs_review"
    /\ cin_post.label = "red"
    /\ cin_calls.send = 1
    /\ cin_executed.published = MaxActions
    /\ cin_result.executed

\* C25: process runs its stages one after the other in the order triage, fan360,
\* plan, pre-execution review, execute, post-execution review; each stage runs at
\* most once and none before an earlier one.
C25_StagesInFixedOrder ==
    /\ Len(cin_stages) <= Len(StageOrder)
    /\ \A k \in 1..Len(cin_stages) : cin_stages[k] = StageOrder[k]
    /\ cin_pc \in {"off", "returned"} \/
          (cin_pc \in {StageOrder[k] : k \in 1..Len(StageOrder)}
           /\ StageIndex(cin_pc) = Len(cin_stages) + 1)

C25_Witness ==
    /\ cin_pc = "returned"
    /\ cin_stages = StageOrder

\* The run the writer of iteration n creates, and the run its safeguard creates
WriterRunOf(n) == 2 * n + 1

SafeguardRunOf(n) == 2 * n + 2

\* C26: each stage invocation creates exactly one new run, and polls and submits
\* tool outputs to that run only: a run made by one stage invocation is never
\* polled, answered or reused by another stage invocation or by a later iteration,
\* while the one thread made at the start is shared by all stages.
C26_OneFreshRunPerStageInvocation ==
    /\ [](pc \in {"w_loop", "w_submit"} =>
            (runs = WriterRunOf(i) /\ run_id = WriterRunOf(i)))
    /\ [](pc \in {"s_loop", "s_submit"} =>
            (runs = SafeguardRunOf(i) /\ run_id = SafeguardRunOf(i)))
    /\ [](pc = "generate" => runs = 2 * i)
    /\ [](pc = "validate" => runs = WriterRunOf(i))
    /\ [][runs' # runs =>
            /\ runs' = runs + 1
            /\ run_id' = runs'
            /\ pc \in {"generate", "validate"}
            /\ pc' \in {"w_loop", "s_loop"}]_vars
    /\ [][(pc \in {"w_loop", "w_submit", "s_loop", "s_submit"} /\ run' # run) =>
            /\ run_id' = run_id
            /\ thread'.role = "assistant" => thread'.run \in {thread.run, run_id}]_vars
    /\ [][last_call' = "create_thread" => pc = "start"]_vars

C26_Witness ==
    /\ pc = "w_loop"
    /\ i = 1
    /\ run_id = 3
    /\ last_call = "get_run"
    /\ run.status = "requires_action"

----------------------------------------------------------------------------
(* Claims about the agent-id cache (SpecCache) *)

\* C28: the cache of remote-agent ids keyed by (model, name) is populated at most
\* once per key: when several planner / supervisor instances are constructed at
\* the same time with the same key, create_agent is called at most once for that
\* key and all the instances end up using the same agent id.
C28_CachePopulatedOncePerKey ==
    /\ \A k \in CacheKeys : create_agent_calls[k] <= 1
    /\ \A c, d \in Ctors :
          (ctor_pc[c] = "done" /\ ctor_pc[d] = "done" /\ ctor_key[c] = ctor_key[d])
              => ctor_agent[c] = ctor_agent[d]

----------------------------------------------------------------------------
(* Claims about the AI router (SpecSelect, SpecRoute) *)

AudioVisual == {"audio", "visual", "multimodal"}

EffectiveType ==
    IF sel_in.type_hint # None THEN sel_in.type_hint ELSE sel_in.classification.type

EffectiveLanguage ==
    IF sel_in.language_hint # None THEN sel_in.language_hint
    ELSE sel_in.classification.language

\* The inputs with no audio or visual modality: neither the modality argument nor
\* the type in effect names one (routing.py:81, 85 calls both cases the modality)
NoAudioVisualModality ==
    /\ sel_in.modality \notin AudioVisual
    /\ EffectiveType \notin AudioVisual

RuleDeepSeek ==
    EffectiveType \in {"math", "coding"} /\ sel_in.classification.complexity = "high"

RuleCreativeOrVip == EffectiveType = "creative" \/ sel_in.client_tier = "vip"

RuleChat == EffectiveType = "chat"

RuleFrench == EffectiveLanguage = "fr"

KeyIsConfigured == Truthy(rt_globals.api_key)

\* C30: when an API key is configured, every POST /route request whose X-API-Key
\* header is missing or differs from the configured key is rejected with 401 before
\* the prompt is validated or classified or any model is called; a request with
\* the configured key, and any request when no key is configured, is never
\* answered 401.
C30_BadKeyRejectedFirst ==
    /\ (KeyIsConfigured /\ rt_req.api_key # rt_globals.api_key
            /\ rt_pc # "verify_api_key") =>
          /\ rt_pc = "responded"
          /\ rt_status = 401
          /\ rt_calls = NoRouteCalls
    /\ rt_status = 401 =>
          (KeyIsConfigured /\ rt_req.api_key # rt_globals.api_key)

\* With ASCII keys only the claim of C30 holds: the one step that breaks it is the
\* comparison of a key that has a character outside ASCII
C30_HoldsForAsciiKeys ==
    (rt_req.api_key \notin NonAsciiKeys /\ rt_globals.api_key \notin NonAsciiKeys)
        => C30_BadKeyRejectedFirst

----------------------------------------------------------------------------
(* Claims about the classifier of the router (SpecClassify) *)

\* C31: from_json returns, for any input dictionary (missing keys, unknown or
\* non-string values), a result with type in {math, coding, creative, chat},
\* complexity in {high, low} and language in {fr, en, other}; classify_prompt
\* returns the default chat/low/other whenever the call raises or the response
\* holds no parseable JSON object, and never propagates an error.
C31_FromJsonTotalAndClassifyDefaults ==
    /\ cl_pc = "from_json_done" =>
          /\ ~cl_out.raised
          /\ cl_out.result.type \in {"math", "coding", "creative", "chat"}
          /\ cl_out.result.complexity \in {"high", "low"}
          /\ cl_out.result.language \in {"fr", "en", "other"}
    /\ cl_pc = "classify_prompt_done" =>
          /\ ~cl_out.raised
          /\ cl_in.kind \in {"raises", "no_json", "null", "non_object"}
                => cl_out.result = ClassificationResult("chat", "low", "other")

\* The half of C31 about classify_prompt alone
C31_ClassifyPromptNeverRaises ==
    cl_pc = "classify_prompt_done" =>
        /\ ~cl_out.raised
        /\ cl_out.result.type \in valid_types
        /\ cl_in.kind # "object" => cl_out.result = get_default_classification

\* C32: for every ClassificationResult the declared field types admit,
\* from_json(to_json(r)) equals r in type, complexity and language.
C32_RoundTripIsIdentity ==
    cl_pc = "round_trip_done" =>
        /\ ~cl_out.raised
        /\ cl_out.result.type = cl_in.type
        /\ cl_out.result.complexity = cl_in.complexity
        /\ cl_out.result.language = cl_in.language

\* The round trip on the values from_json accepts
C32_RoundTripOnAcceptedValues ==
    cl_pc = "round_trip_done" /\ cl_in.type \in valid_types
        /\ cl_in.complexity \in valid_complexities
    => ~cl_out.raised /\ cl_out.result = cl_in

----------------------------------------------------------------------------
(* Claims about the prompt check of POST /route (SpecRoute) *)

\* The request is one the API-key check lets through: no key is configured, or
\* the header carries the configured key
PassesKeyCheck == verify_api_key(rt_req.api_key, rt_globals.api_key) = 0

\* C33 as stated: POST /route with an empty or whitespace-only prompt returns
\* 400 and performs no classification call and no model call, whether or not
\* the configuration and the Azure client are initialized.
C33_BlankPromptGets400 ==
    prompt_is_empty(rt_req.prompt) =>
        /\ rt_calls.classify = 0 /\ rt_calls.model = 0
        /\ rt_pc = "responded" => rt_status = 400

\* C33 as amended: POST /route with an empty or whitespace-only prompt never
\* performs a classification call or a model call, and when the request passes
\* the API-key check it returns 400, whether or not the configuration and the
\* Azure client are initialized.
C33_BlankPromptPastKeyCheckGets400 ==
    prompt_is_empty(rt_req.prompt) =>
        /\ rt_calls.classify = 0 /\ rt_calls.model = 0
        /\ rt_pc = "responded" /\ PassesKeyCheck => rt_status = 400

C33_Witness ==
    /\ rt_pc = "responded" /\ rt_req.prompt = " " /\ rt_status = 400
    /\ ~rt_globals.config /\ ~rt_globals.client
    /\ rt_calls.validate = 1

----------------------------------------------------------------------------
(* Claims about the verdict and the session of the /draft flow (SpecDraft) *)

\* agents.py:22-47 SAFEGUARD_SCHEMA: an object with a label of the three, an
\* integer score within 0..100 and infractions, and nothing else
ConformsToSafeguardSchema(reply) ==
    /\ reply.kind = "json"
    /\ reply.verdict.label \in Labels
    /\ reply.verdict.score_kind = "int"
    /\ reply.verdict.score \in 0..100

\* C34: if the last safeguard reply recorded by ChatContext.record is JSON
\* conforming to SAFEGUARD_SCHEMA (label, score, infractions) with label red,
\* the response status of /draft is needs_review: the red label is not lost
\* between the reply, last_safeguard, compute_risk and the threshold test.
C34_RecordedRedReplyNeedsReview ==
    (d_pc = "done" /\ ConformsToSafeguardSchema(d_recorded)
        /\ d_recorded.verdict.label = "red")
    => d_response = "needs_review"

SessionAndResponseAgree ==
    /\ d_pc = "done" =>
          \/ /\ d_response = "needs_review"
             /\ d_session = [status |-> "needs_review", step |-> "REVIEW"]
             /\ d_events = 1
          \/ /\ d_response = "ok"
             /\ d_session = [status |-> "ready", step |-> "READY"]
             /\ d_events = 0
    /\ ~(d_session.status = "ready" /\ d_response = "needs_review")
    /\ d_pc = "raised" =>
          /\ d_session = [status |-> "needs_review", step |-> "REVIEW"]
          /\ d_response # "ok"
          /\ d_events = 0

SessionLeavesRunningOnce ==
    d_session'.status \in {"needs_review", "ready"} /\ d_session' # d_session
        => d_session.status = "running"

\* C35: after a /draft run that returns, the stored session and the response
\* agree: running -> needs_review (step REVIEW, response needs_review, exactly
\* one review_needed event posted) or running -> ready (step READY, response ok,
\* no event); the session is never ready while the response says needs_review;
\* when posting the event fails the session stays needs_review and the response
\* is not ok.
C35_SessionAndResponseAgree ==
    []SessionAndResponseAgree /\ [][SessionLeavesRunningOnce]_vars

C35_Witness ==
    /\ d_pc = "done" /\ d_response = "needs_review"
    /\ d_session.status = "needs_review" /\ d_events = 1

\* The other two ends of a run: the gate lets the draft through; the webhook fails
C35_WitnessReadyAndFailedPost ==
    \/ d_pc = "done" /\ d_response = "ok" /\ d_session.status = "ready"
    \/ d_pc = "raised" /\ d_session.status = "needs_review"

----------------------------------------------------------------------------
(* Claims about human_decision and the life of a session (SpecSessions) *)

\* The step is a human_decision request
HumanDecisionServed == hd_n' = hd_n + 1

HumanDecisionChangesOnlyAsDecided ==
    HumanDecisionServed =>
        LET r == hd_last'
        IN /\ \A s \in SessionIds \ {r.session_id} : hd_store'[s] = hd_store[s]
           /\ hd_store'[r.session_id] # hd_store[r.session_id] =>
                 \/ /\ r.decision = "approve"
                    /\ hd_store'[r.session_id] = [status |-> "sending", step |-> "SENDING"]
                 \/ /\ r.decision \in {"reject", "edit"}
                    /\ hd_store'[r.session_id] = [status |-> "closed", step |-> "CLOSED"]
           /\ r.code = 200 =>
                 hd_store'[r.session_id].status =
                     IF r.decision = "approve" THEN "sending" ELSE "closed"
           /\ hd_store[r.session_id] = NoSession => r.code = 404
           /\ (hd_store[r.session_id] # NoSession
                 /\ r.decision \notin {"approve", "reject", "edit"}) => r.code = 400
           /\ r.code \in {404, 400} =>
                 /\ hd_store' = hd_store
                 /\ hd_events' = hd_events
                 /\ ~r.wrote

\* C36: human_decision changes a session only as follows: approve sets status
\* sending / step SENDING, reject or edit sets status closed / step CLOSED; an
\* unknown session id is answered 404 and any other decision value 400, and in
\* both error cases no session status is written and no event is posted.
C36_HumanDecisionChangesOnlyAsDecided == [][HumanDecisionChangesOnlyAsDecided]_vars

C36_Witness ==
    /\ hd_last.decision = "edit" /\ hd_last.code = 200
    /\ hd_store[hd_last.session_id] = [status |-> "closed", step |-> "CLOSED"]
    /\ hd_events = 1

\* The error cases of C36 happen
C36_WitnessErrors ==
    \/ hd_last.code = 404
    \/ hd_last.code = 400

SendingOnlyFromNeedsReview ==
    /\ \A s \in SessionIds :
          /\ (hd_store'[s].status = "sending" /\ hd_store[s].status # "sending")
                => hd_store[s].status = "needs_review"
          /\ hd_store[s].status = "closed" => hd_store'[s] = hd_store[s]
    /\ (HumanDecisionServed /\ hd_last'.wrote /\ hd_last'.decision = "approve")
          => hd_last'.before = "needs_review"

\* C37: over any sequence of /draft and human_decision calls a session reaches
\* status sending only from status needs_review: a session that is ready,
\* running, closed or already sending is never moved to sending, and a closed
\* session never changes status again.
C37_SendingOnlyFromNeedsReview == [][SendingOnlyFromNeedsReview]_vars

----------------------------------------------------------------------------
(* Claims about the messages of CINExecutor.execute (SpecExecute) *)

BatchFollowsPlan(b) ==
    /\ Len(b.msgs) = Len(ex_plan)
    /\ \A k \in 1..Len(b.msgs) :
          /\ b.msgs[k].seq = k - 1
          /\ b.msgs[k].action = ex_plan[k]
          /\ b.trace_id.given =>
                /\ b.msgs[k].message_id.set
                /\ b.msgs[k].message_id.text
                      = b.trace_id.id \o <<"-">> \o str_of_int(k - 1)

MessageIdsDistinct(b) ==
    b.trace_id.given =>
        \A j, k \in 1..Len(b.msgs) :
            j # k => b.msgs[j].message_id # b.msgs[k].message_id

MessageIdsOf(b) == [k \in 1..Len(b.msgs) |-> b.msgs[k].message_id]

\* C38: execute publishes the plan's actions as one batch in plan order: the
\* i-th action gets seq = i and, when a trace id is given, message id
\* "<trace_id>-<i>"; the message ids within one batch are pairwise distinct, and
\* re-executing the same plan with the same trace id gives the same message ids.
C38_MessageIdsByTraceAndPosition ==
    /\ Len(ex_sent) <= ex_n
    /\ \A x \in 1..Len(ex_sent) :
          BatchFollowsPlan(ex_sent[x]) /\ MessageIdsDistinct(ex_sent[x])
    /\ \A x, y \in 1..Len(ex_sent) :
          (ex_sent[x].trace_id.given /\ ex_sent[x].trace_id = ex_sent[y].trace_id)
              => MessageIdsOf(ex_sent[x]) = MessageIdsOf(ex_sent[y])

C38_Witness ==
    /\ Len(ex_sent) = 2 /\ Len(ex_plan) = 2
    /\ ex_sent[1].trace_id.given /\ ex_sent[1].trace_id = ex_sent[2].trace_id

----------------------------------------------------------------------------
(* Claims about ContentScheduler (SpecSchedule) *)

IdsOf(entries) == [k \in 1..Len(entries) |-> entries[k].id]

\* The step is a call of execute_pending
ExecutePendingRan == sch_runs' = sch_runs + 1

ExecutePendingPublishesTheDue ==
    ExecutePendingRan =>
        LET due == SelectSeq(sch_schedule, LAMBDA e : e.time <= sch_now)
            not_due == SelectSeq(sch_schedule, LAMBDA e : e.time > sch_now)
            published_now == SubSeq(sch_published', Len(sch_published) + 1,
                                    Len(sch_published'))
        IN /\ IdsOf(published_now) = IdsOf(due)
           /\ sch_schedule' = not_due
           /\ sch_ret' = Len(due)

NeverPublishedTwice ==
    \A j, k \in 1..Len(sch_published) :
        j # k => sch_published[j].id # sch_published[k].id

\* C39: the schedule is sorted by scheduled time after every add_to_schedule;
\* execute_pending publishes each entry whose time is at or before now exactly
\* once, in schedule order, removes exactly those entries, leaves the entries
\* not yet due unchanged and returns the number it published; no entry is
\* published by two execute_pending calls.
C39_ScheduleSortedAndDuePublishedOnce ==
    /\ [](sorted_by_time(sch_schedule) /\ NeverPublishedTwice)
    /\ [][ExecutePendingPublishesTheDue]_vars

C39_Witness ==
    /\ sch_runs = 2 /\ sch_ret = 1 /\ Len(sch_published) = 2
    /\ Len(sch_schedule) = 1
    /\ sch_published[1].run = 1 /\ sch_published[2].run = 2

====
